---- MODULE Spec2Model ----
(***************************************************************************)
(* Garden tracker backend: garden-bed shape validation, bed create/update  *)
(* (Flask app.py and FastAPI routers), and the JSON data import of         *)
(* app.py, modelled over a relational store with one transaction per       *)
(* request.                                                                *)
(***************************************************************************)
EXTENDS Integers, Sequences, FiniteSets, TLC

VARIABLES
    users,        \* user table: id -> [email, preferred_units]
    beds,         \* garden_bed table: set of rows
    plantTypes,   \* plant_type table: set of rows
    plantings,    \* planting table: set of rows
    layouts,      \* garden_layout table: set of rows
    last,         \* the last request served, its response, and for an import
                  \* the handler's id maps and the tables before the request
    phase,        \* import harness: "seed" until the import under check has run
    pending,      \* layout saves that have read the store and not yet written
    vShape,       \* validator harness: shape argument
    vParams,      \* validator harness: shape_params argument
    vResult       \* validator harness: value returned by the call

vars ==
    <<users, beds, plantTypes, plantings, layouts, last, phase, pending, vShape, vParams, vResult>>

dbVars == <<users, beds, plantTypes, plantings, layouts, last>>

vVars == <<vShape, vParams, vResult>>

(***************************************************************************)
(* Bounds of the model.                                                    *)
(***************************************************************************)
\* largest number used as a shape parameter (the smallest is -1)
MaxNum == 2

\* largest primary key the store hands out in a table
MaxId == 4

\* largest bed id handed out while bed requests are interleaved
MaxBedId == 2

\* longest list of entries in an imported document
MaxEntries == 2

\* plant types and plantings the requests outside the import may create
MaxPlantTypes == 2

MaxPlantings == 2

(***************************************************************************)
(* JSON values as Python sees them after json.loads / request.get_json:    *)
(* t is the Python type, n the numeric value (True is 1, False is 0),      *)
(* s the text of a string.                                                 *)
(***************************************************************************)
JInt(n) == [t |-> "int", n |-> n, s |-> ""]

JFloat(n) == [t |-> "float", n |-> n, s |-> ""]

JBool(b) == [t |-> "bool", n |-> IF b THEN 1 ELSE 0, s |-> ""]

JStr(s) == [t |-> "str", n |-> 0, s |-> s]

JNull == [t |-> "null", n |-> 0, s |-> ""]

JList == [t |-> "list", n |-> 0, s |-> ""]

EmptyMap == [k \in {} |-> JNull]

\* a shape_params value: a dict (kind "dict", m its items) or another JSON type
PDict(m) == [kind |-> "dict", m |-> m]

PNotDict(kind) == [kind |-> kind, m |-> EmptyMap]

(***************************************************************************)
(* enums.py                                                                *)
(***************************************************************************)
GardenBedShape == <<"rectangle", "circle", "pill", "c-rectangle">>

GardenBedShapeList == {GardenBedShape[i] : i \in 1..Len(GardenBedShape)}

(***************************************************************************)
(* validators.py: validate_bed_shape_and_params.  The result is            *)
(* (is_valid, error_message); raised = TRUE when the call raises instead   *)
(* of returning (TypeError on an unhashable missing_side).                 *)
(***************************************************************************)
Valid == [ok |-> TRUE, msg |-> "None", raised |-> FALSE]

Invalid(msg) == [ok |-> FALSE, msg |-> msg, raised |-> FALSE]

Raised == [ok |-> FALSE, msg |-> "TypeError", raised |-> TRUE]

\* isinstance(v, (int, float)): bool is a subclass of int
IsNumber(v) == v.t \in {"int", "float", "bool"}

\* isinstance(v, (int, float)) and v > 0
PositiveNumber(v) == IsNumber(v) /\ v.n > 0

\* values Python cannot hash, so that `v not in {...}` raises TypeError
Unhashable(v) == v.t = "list"

MissingSides == {"top", "bottom", "left", "right"}

RectangleMsg ==
    [width |-> "Rectangle 'width' must be a positive number.",
     height |-> "Rectangle 'height' must be a positive number."]

PillKeys == <<"width", "height", "border_radius">>

PillRequiresMsg ==
    [width |-> "Pill requires 'width' in shape_params.",
     height |-> "Pill requires 'height' in shape_params.",
     border_radius |-> "Pill requires 'border_radius' in shape_params."]

PillPositiveMsg ==
    [width |-> "Pill 'width' must be a positive number.",
     height |-> "Pill 'height' must be a positive number.",
     border_radius |-> "Pill 'border_radius' must be a positive number."]

CRectRequired == <<"width", "height", "missing_side", "missing_width", "missing_height">>

CRectRequiresMsg ==
    [width |-> "C-rectangle requires 'width' in shape_params.",
     height |-> "C-rectangle requires 'height' in shape_params.",
     missing_side |-> "C-rectangle requires 'missing_side' in shape_params.",
     missing_width |-> "C-rectangle requires 'missing_width' in shape_params.",
     missing_height |-> "C-rectangle requires 'missing_height' in shape_params."]

CRectNumeric == <<"width", "height", "missing_width", "missing_height">>

CRectPositiveMsg ==
    [width |-> "C-rectangle 'width' must be a positive number.",
     height |-> "C-rectangle 'height' must be a positive number.",
     missing_width |-> "C-rectangle 'missing_width' must be a positive number.",
     missing_height |-> "C-rectangle 'missing_height' must be a positive number."]

\* indices of the entries of keys that fail test, in order
FirstFailing(keys, Test(_)) ==
    LET bad == {i \in 1..Len(keys) : ~Test(keys[i])}
    IN  IF bad = {} THEN 0 ELSE CHOOSE i \in bad : \A j \in bad : i <= j

ValidateRectangle(m) ==
    IF ~({"width", "height"} \subseteq DOMAIN m)
    THEN Invalid("Rectangle requires 'width' and 'height' in shape_params.")
    ELSE IF ~PositiveNumber(m["width"]) THEN Invalid(RectangleMsg["width"])
    ELSE IF ~PositiveNumber(m["height"]) THEN Invalid(RectangleMsg["height"])
    ELSE Valid

ValidateCircle(m) ==
    IF "radius" \notin DOMAIN m
    THEN Invalid("Circle requires 'radius' in shape_params.")
    ELSE IF ~PositiveNumber(m["radius"])
    THEN Invalid("Circle 'radius' must be a positive number.")
    ELSE Valid

\* for k in (...): presence and positivity are tested key by key
ValidatePill(m) ==
    LET KeyOk(k) == k \in DOMAIN m /\ PositiveNumber(m[k])
        i == FirstFailing(PillKeys, KeyOk)
    IN  IF i = 0 THEN Valid
        ELSE IF PillKeys[i] \notin DOMAIN m THEN Invalid(PillRequiresMsg[PillKeys[i]])
        ELSE Invalid(PillPositiveMsg[PillKeys[i]])

ValidateCRectangle(m) ==
    LET Present(k) == k \in DOMAIN m
        Positive(k) == PositiveNumber(m[k])
        i == FirstFailing(CRectRequired, Present)
    IN  IF i # 0 THEN Invalid(CRectRequiresMsg[CRectRequired[i]])
        ELSE IF Unhashable(m["missing_side"]) THEN Raised
        ELSE IF ~(m["missing_side"].t = "str" /\ m["missing_side"].s \in MissingSides)
        THEN Invalid("C-rectangle 'missing_side' must be one of: top, bottom, left, right.")
        ELSE LET j == FirstFailing(CRectNumeric, Positive)
             IN  IF j # 0 THEN Invalid(CRectPositiveMsg[CRectNumeric[j]])
                 ELSE IF m["missing_width"].n >= m["width"].n
                 THEN Invalid("C-rectangle 'missing_width' must be less than 'width'.")
                 ELSE IF m["missing_height"].n >= m["height"].n
                 THEN Invalid("C-rectangle 'missing_height' must be less than 'height'.")
                 ELSE Valid

\* ', '.join(GardenBedShape.list())
RECURSIVE Join(_, _)
Join(sep, names) ==
    IF Len(names) = 0 THEN ""
    ELSE IF Len(names) = 1 THEN names[1]
    ELSE names[1] \o sep \o Join(sep, Tail(names))

ShapeMsg == "Shape must be one of: " \o Join(", ", GardenBedShape) \o "."

\* mutant: the type of shape_params is tested before the shape name
ValidateParamsTypeFirst(shape, shape_params) ==
    IF shape_params.kind # "dict"
    THEN Invalid("shape_params must be a JSON object.")
    ELSE IF shape \notin GardenBedShapeList THEN Invalid(ShapeMsg)
    ELSE IF shape = "rectangle" THEN ValidateRectangle(shape_params.m)
    ELSE IF shape = "circle" THEN ValidateCircle(shape_params.m)
    ELSE IF shape = "pill" THEN ValidatePill(shape_params.m)
    ELSE ValidateCRectangle(shape_params.m)

\* mutant: the type of shape_params is not tested
ValidateWithoutTypeTest(shape, shape_params) ==
    IF shape \notin GardenBedShapeList THEN Invalid(ShapeMsg)
    ELSE IF shape = "rectangle" THEN ValidateRectangle(shape_params.m)
    ELSE IF shape = "circle" THEN ValidateCircle(shape_params.m)
    ELSE IF shape = "pill" THEN ValidatePill(shape_params.m)
    ELSE ValidateCRectangle(shape_params.m)

validate_bed_shape_and_params(shape, shape_params) ==
    IF shape \notin GardenBedShapeList
    THEN Invalid(ShapeMsg)
    ELSE IF shape_params.kind # "dict"
    THEN Invalid("shape_params must be a JSON object.")
    ELSE IF shape = "rectangle" THEN ValidateRectangle(shape_params.m)
    ELSE IF shape = "circle" THEN ValidateCircle(shape_params.m)
    ELSE IF shape = "pill" THEN ValidatePill(shape_params.m)
    ELSE ValidateCRectangle(shape_params.m)

(***************************************************************************)
(* Validator harness: the arguments are drawn from bounded sets and the    *)
(* function is applied to them.                                            *)
(***************************************************************************)
NotRun == [ok |-> FALSE, msg |-> "not run", raised |-> FALSE]

\* shape names that are not in the enum
UnknownShapes == {"hexagon", "Rectangle", "square", ""}

ShapeParamKeys ==
    [rectangle |-> {"width", "height"},
     circle |-> {"radius"},
     pill |-> {"width", "height", "border_radius"}] @@
    ("c-rectangle" :> {"width", "height", "missing_side", "missing_width", "missing_height"}) @@
    [sh \in UnknownShapes |-> {"width"}]

ParamValues ==
    {JInt(n) : n \in -1..MaxNum} \cup {JFloat(1), JBool(TRUE), JBool(FALSE),
     JStr("left"), JStr("diagonal"), JNull, JList}

\* the non-dict values a caller can pass as shape_params
NonDictParams == {PNotDict(k) : k \in {"list", "int", "str", "null"}}

ShapeInputs == GardenBedShapeList \cup UnknownShapes

(***************************************************************************)
(* The store.  Users 1 and 2 are registered; the tables are empty.         *)
(***************************************************************************)
Users == {1, 2}

None == "None"

NoRequest == [op |-> "none", status |-> 0]

InitUsers ==
    (1 :> [email |-> "a@example.com", preferred_units |-> "imperial"]) @@
    (2 :> [email |-> "b@example.com", preferred_units |-> "metric"])

InitDb ==
    /\ users = InitUsers
    /\ beds = {}
    /\ plantTypes = {}
    /\ plantings = {}
    /\ layouts = {}
    /\ last = NoRequest
    /\ phase = "seed"
    /\ pending = {}

InitValidate ==
    /\ InitDb
    /\ vShape \in ShapeInputs
    /\ \/ vParams \in NonDictParams
       \/ \E ks \in SUBSET ShapeParamKeys[vShape] :
             \E m \in [ks -> ParamValues] : vParams = PDict(m)
    /\ vResult = NotRun

CallValidate ==
    /\ vResult = NotRun
    /\ vResult' = validate_bed_shape_and_params(vShape, vParams)
    /\ UNCHANGED <<dbVars, phase, pending, vShape, vParams>>

NextValidate == CallValidate

SpecValidate == InitValidate /\ [][NextValidate]_vars

(***************************************************************************)
(* Relational store helpers.                                               *)
(***************************************************************************)
Max(S) == CHOOSE x \in S : \A y \in S : y <= x

Min(S) == CHOOSE x \in S : \A y \in S : x <= y

\* id = Column(Integer, primary_key=True) on the default SQLite database:
\* the next rowid is one more than the largest rowid in the table
NextRowId(rows) == IF rows = {} THEN 1 ELSE Max({r.id : r \in rows}) + 1

\* dict.get(k, default)
Get(d, k, default) == IF k \in DOMAIN d THEN d[k] ELSE default

\* d[k] = v
Put(d, k, v) == [x \in DOMAIN d \cup {k} |-> IF x = k THEN v ELSE d[x]]

Drop(d, k) == [x \in DOMAIN d \ {k} |-> d[x]]

\* nullable=False columns of GardenBed: an INSERT or UPDATE with NULL raises
BedNotNullOk(row) ==
    row.name # None /\ row.shape # None /\ row.unit_measure # None

BedsOf(u) == {b \in beds : b.user_id = u}

(***************************************************************************)
(* Bed create and update, Flask (app.py) and FastAPI (routers).            *)
(***************************************************************************)
RectOk == PDict([width |-> JInt(2), height |-> JInt(1)])

RectNegative == PDict([width |-> JInt(2), height |-> JInt(-1)])

CircleOk == PDict([radius |-> JInt(1)])

ShapeChoices == {"rectangle", "circle"}

DictParamChoices == {RectOk, CircleOk}

ParamChoices == DictParamChoices \cup {PNotDict("list")}

\* request bodies of bed creation: all four required fields, or one left out
FullBedData ==
    {[name |-> "Bed A", shape |-> sh, shape_params |-> sp, unit_measure |-> "feet"] :
        sh \in ShapeChoices, sp \in ParamChoices}

CreateBedData ==
    FullBedData \cup
    {Drop([name |-> "Bed A", shape |-> "rectangle", shape_params |-> RectOk,
           unit_measure |-> "feet"], k) :
        k \in {"name", "shape", "shape_params", "unit_measure"}}

\* request bodies of bed update: any of shape and shape_params
UpdateBedData ==
    UNION {{[k \in ks |-> IF k = "shape" THEN sh ELSE sp] :
                sh \in ShapeChoices, sp \in ParamChoices} :
           ks \in SUBSET {"shape", "shape_params"}}

\* app.py create_garden_bed: [status, beds]
FlaskCreateBedResult(u, data) ==
    IF ~({"name", "shape", "shape_params", "unit_measure"} \subseteq DOMAIN data)
    THEN [status |-> 400, beds |-> beds]
    ELSE LET v == validate_bed_shape_and_params(data["shape"], data["shape_params"])
             new_bed == [id |-> NextRowId(beds), user_id |-> u, name |-> data["name"],
                         shape |-> data["shape"], shape_params |-> data["shape_params"],
                         unit_measure |-> data["unit_measure"]]
         IN  IF v.raised THEN [status |-> 500, beds |-> beds]
             ELSE IF ~v.ok THEN [status |-> 400, beds |-> beds]
             ELSE IF ~BedNotNullOk(new_bed) THEN [status |-> 500, beds |-> beds]
             ELSE [status |-> 201, beds |-> beds \cup {new_bed}]

FlaskCreateBed ==
    \E u \in Users, data \in CreateBedData :
        LET r == FlaskCreateBedResult(u, data)
        IN  /\ NextRowId(beds) <= MaxBedId
            /\ beds' = r.beds
            /\ last' = [op |-> "flask_create_bed", user |-> u, status |-> r.status]
            /\ UNCHANGED <<users, plantTypes, plantings, layouts, phase, pending, vVars>>

\* mutant: update_garden_bed committing before it answers a rejected pair
FlaskUpdateCommitsEarly(u, bed_id, data) ==
    LET found == {b \in beds : b.id = bed_id}
    IN  IF found = {} THEN [status |-> 404, beds |-> beds]
        ELSE LET bed == CHOOSE b \in found : TRUE
                 Has(k) == k \in DOMAIN data /\ data[k] # None
                 b1 == IF Has("name") THEN [bed EXCEPT !.name = data["name"]] ELSE bed
                 b2 == IF Has("shape") THEN [b1 EXCEPT !.shape = data["shape"]] ELSE b1
                 hasParams == "shape_params" \in DOMAIN data
                                 /\ data["shape_params"].kind # "null"
             IN  IF bed.user_id # u THEN [status |-> 403, beds |-> beds]
                 ELSE IF DOMAIN data = {} THEN [status |-> 400, beds |-> beds]
                 ELSE IF hasParams /\ "shape" \notin DOMAIN data
                 THEN [status |-> 500, beds |-> beds]
                 ELSE LET v == IF hasParams
                               THEN validate_bed_shape_and_params(data["shape"],
                                                                  data["shape_params"])
                               ELSE Valid
                          b3 == IF hasParams
                                THEN [b2 EXCEPT !.shape_params = data["shape_params"]]
                                ELSE b2
                          b4 == IF Has("unit_measure")
                                THEN [b3 EXCEPT !.unit_measure = data["unit_measure"]]
                                ELSE b3
                      IN  IF v.raised THEN [status |-> 500, beds |-> beds]
                          ELSE IF ~v.ok THEN [status |-> 400, beds |-> (beds \ {bed}) \cup {b2}]
                          ELSE [status |-> 200, beds |-> (beds \ {bed}) \cup {b4}]

\* app.py update_garden_bed: the fields are assigned on the session's object as
\* they are read; only the commit at the end stores them, an early return
\* leaves the session to be discarded with the request
FlaskUpdateBedResult(u, bed_id, data) ==
    LET found == {b \in beds : b.id = bed_id}
    IN  IF found = {} THEN [status |-> 404, beds |-> beds]
        ELSE LET bed == CHOOSE b \in found : TRUE
                 Has(k) == k \in DOMAIN data /\ data[k] # None
                 b1 == IF Has("name") THEN [bed EXCEPT !.name = data["name"]] ELSE bed
                 b2 == IF Has("shape") THEN [b1 EXCEPT !.shape = data["shape"]] ELSE b1
                 hasParams == "shape_params" \in DOMAIN data
                                 /\ data["shape_params"].kind # "null"
             IN  IF bed.user_id # u THEN [status |-> 403, beds |-> beds]
                 ELSE IF DOMAIN data = {} THEN [status |-> 400, beds |-> beds]
                 ELSE IF hasParams /\ "shape" \notin DOMAIN data
                 THEN [status |-> 500, beds |-> beds]   \* KeyError: data['shape']
                 ELSE LET v == IF hasParams
                               THEN validate_bed_shape_and_params(data["shape"],
                                                                  data["shape_params"])
                               ELSE Valid
                          b3 == IF hasParams
                                THEN [b2 EXCEPT !.shape_params = data["shape_params"]]
                                ELSE b2
                          b4 == IF Has("unit_measure")
                                THEN [b3 EXCEPT !.unit_measure = data["unit_measure"]]
                                ELSE b3
                      IN  IF v.raised THEN [status |-> 500, beds |-> beds]
                          ELSE IF ~v.ok THEN [status |-> 400, beds |-> beds]
                          ELSE [status |-> 200, beds |-> (beds \ {bed}) \cup {b4}]

FlaskUpdateBed ==
    \E u \in Users, bed_id \in 1..MaxId, data \in UpdateBedData :
        LET r == FlaskUpdateBedResult(u, bed_id, data)
        IN  /\ beds' = r.beds
            /\ last' = [op |-> "flask_update_bed", user |-> u, status |-> r.status]
            /\ UNCHANGED <<users, plantTypes, plantings, layouts, phase, pending, vVars>>

\* routers/garden_beds.py create_garden_bed; schemas.GardenBedCreate requires
\* the four fields and a dict for shape_params (422 otherwise)
FastCreateBedResult(u, data) ==
    IF ~({"name", "shape", "shape_params", "unit_measure"} \subseteq DOMAIN data)
       \/ data["shape_params"].kind # "dict"
    THEN [status |-> 422, beds |-> beds]
    ELSE [status |-> 201,
          beds |-> beds \cup
              {[id |-> NextRowId(beds), user_id |-> u, name |-> data["name"],
                shape |-> data["shape"], shape_params |-> data["shape_params"],
                unit_measure |-> data["unit_measure"]]}]

FastCreateBed ==
    \E u \in Users, data \in CreateBedData :
        LET r == FastCreateBedResult(u, data)
        IN  /\ NextRowId(beds) <= MaxBedId
            /\ beds' = r.beds
            /\ last' = [op |-> "fastapi_create_bed", user |-> u, status |-> r.status]
            /\ UNCHANGED <<users, plantTypes, plantings, layouts, phase, pending, vVars>>

\* routers/garden_beds.py update_garden_bed; schemas.GardenBedUpdate
FastUpdateBedResult(u, bed_id, data) ==
    LET found == {b \in beds : b.id = bed_id /\ b.user_id = u}
    IN  IF "shape_params" \in DOMAIN data /\ data["shape_params"].kind # "dict"
        THEN [status |-> 422, beds |-> beds]
        ELSE IF found = {} THEN [status |-> 404, beds |-> beds]
        ELSE LET bed == CHOOSE b \in found : TRUE
                 upd == [k \in DOMAIN bed |-> IF k \in DOMAIN data THEN data[k] ELSE bed[k]]
             IN  [status |-> 200, beds |-> (beds \ {bed}) \cup {upd}]

FastUpdateBed ==
    \E u \in Users, bed_id \in 1..MaxId, data \in UpdateBedData :
        LET r == FastUpdateBedResult(u, bed_id, data)
        IN  /\ beds' = r.beds
            /\ last' = [op |-> "fastapi_update_bed", user |-> u, status |-> r.status]
            /\ UNCHANGED <<users, plantTypes, plantings, layouts, phase, pending, vVars>>

\* request bodies of bed update that also rename the bed and change its unit
UpdateBedDataFull ==
    UpdateBedData \cup
    {[k \in DOMAIN d \cup {"name", "unit_measure"} |->
         IF k = "name" THEN "Bed Z" ELSE IF k = "unit_measure" THEN "meters" ELSE d[k]] :
        d \in UpdateBedData}

\* a Flask bed creation whose body and result are kept
CheckedFlaskCreateBed ==
    \E u \in Users, data \in CreateBedData :
        LET r == FlaskCreateBedResult(u, data)
        IN  /\ NextRowId(beds) <= MaxBedId
            /\ beds' = r.beds
            /\ last' = [op |-> "checked_flask_create_bed", user |-> u, status |-> r.status,
                        bed_id |-> 0, data |-> data, pre |-> beds]
            /\ phase' = "done"
            /\ UNCHANGED <<users, plantTypes, plantings, layouts, pending, vVars>>

\* a Flask bed update whose body and result are kept
CheckedFlaskUpdateBed ==
    \E u \in Users, bed_id \in 1..MaxId, data \in UpdateBedDataFull :
        LET r == FlaskUpdateBedResult(u, bed_id, data)
        IN  /\ beds' = r.beds
            /\ last' = [op |-> "checked_flask_update_bed", user |-> u, status |-> r.status,
                        bed_id |-> bed_id, data |-> data, pre |-> beds]
            /\ phase' = "done"
            /\ UNCHANGED <<users, plantTypes, plantings, layouts, pending, vVars>>

(***************************************************************************)
(* Imported documents (app.py import_user_data).                           *)
(***************************************************************************)
TopLevelKeys == {"user_preferences", "plant_types", "garden_beds", "plantings", "garden_layout"}

\* calendar dates; NoDate is the NULL of a Date column
NoDate == [y |-> 0, m |-> 0, d |-> 0]

\* datetime.fromisoformat on the strings the model feeds it
IsoDates ==
    ("2024-05-01" :> [y |-> 2024, m |-> 5, d |-> 1]) @@ ("2024-08-01" :> [y |-> 2024, m |-> 8, d |-> 1])

\* json.dumps / json.loads of the layout document kept in layout_json (Text)
JsonDumps(content) == [json |-> content]

JsonLoads(text) == text.json

\* values inside a layout document
LList(items) == [t |-> "list", n |-> 0, items |-> items]

LInt(n) == [t |-> "int", n |-> n, items |-> <<>>]

\* the garden_layout value of a document
GLayout(kind, content) == [kind |-> kind, layout |-> content]

EmptyIdMap == [k \in {} |-> 0]

EmptyContent == [k \in {} |-> LInt(0)]

(***************************************************************************)
(* import_user_data, step by step, on the tables of the open transaction   *)
(* tx = [beds, plantTypes, plantings, layouts].                            *)
(***************************************************************************)
\* mutant: step 1 clears the plant types as well
DeleteAlsoPlantTypes(tx, u) ==
    LET bed_ids == {b.id : b \in {x \in tx.beds : x.user_id = u}}
    IN  [beds |-> {b \in tx.beds : b.user_id # u},
         plantTypes |-> {},
         plantings |-> {p \in tx.plantings : p.bed_id \notin bed_ids},
         layouts |-> {l \in tx.layouts : l.user_id # u}]

\* mutant: step 1 without the delete of the user's beds
DeleteKeepsBeds(tx, u) ==
    LET bed_ids == {b.id : b \in {x \in tx.beds : x.user_id = u}}
    IN  [tx EXCEPT !.plantings = {p \in tx.plantings : p.bed_id \notin bed_ids},
                   !.layouts = {l \in tx.layouts : l.user_id # u}]

\* mutant: step 1 without the user filters
DeleteEveryUsersData(tx, u) ==
    [tx EXCEPT !.plantings = {p \in tx.plantings : \A b \in tx.beds : b.id # p.bed_id},
               !.layouts = {},
               !.beds = {}]

\* step 1: delete the user's plantings (joined through the beds), layout, beds
DeleteUserData(tx, u) ==
    LET bed_ids == {b.id : b \in {x \in tx.beds : x.user_id = u}}
        planting_ids_to_delete == {p.id : p \in {x \in tx.plantings : x.bed_id \in bed_ids}}
    IN  [tx EXCEPT !.plantings = {p \in tx.plantings : p.id \notin planting_ids_to_delete},
                   !.layouts = {l \in tx.layouts : l.user_id # u},
                   !.beds = {b \in tx.beds : b.user_id # u}]

\* mutant: step 3 without the lookup by common_name
UpsertAlwaysCreates(pts, map, pt_data) ==
    LET common_name == Get(pt_data, "common_name", None)
        plant_type == [id |-> NextRowId(pts), common_name |-> common_name,
                       rotation_family |-> Get(pt_data, "rotation_family", None)]
    IN  IF common_name = None \/ common_name = ""
        THEN [plantTypes |-> pts, map |-> map]
        ELSE [plantTypes |-> pts \cup {plant_type},
              map |-> IF "id" \in DOMAIN pt_data THEN Put(map, pt_data["id"], plant_type.id)
                      ELSE map]

\* step 3, one entry: update the PlantType of that common_name or create one;
\* the mutable fields other than rotation_family are assigned the same way
UpsertPlantType(pts, map, pt_data) ==
    LET old_id_present == "id" \in DOMAIN pt_data
        common_name == Get(pt_data, "common_name", None)
        existing == {p \in pts : p.common_name = common_name}
    IN  IF common_name = None \/ common_name = ""
        THEN [plantTypes |-> pts, map |-> map]
        ELSE IF existing # {}
        THEN LET plant_type == CHOOSE p \in existing : p.id = Min({x.id : x \in existing})
                 updated == [plant_type EXCEPT !.rotation_family =
                                Get(pt_data, "rotation_family", plant_type.rotation_family)]
             IN  [plantTypes |-> (pts \ {plant_type}) \cup {updated},
                  map |-> IF old_id_present THEN Put(map, pt_data["id"], updated.id) ELSE map]
        ELSE LET plant_type == [id |-> NextRowId(pts), common_name |-> common_name,
                                rotation_family |-> Get(pt_data, "rotation_family", None)]
             IN  [plantTypes |-> pts \cup {plant_type},
                  map |-> IF old_id_present THEN Put(map, pt_data["id"], plant_type.id) ELSE map]

RECURSIVE ImportPlantTypes(_, _, _, _)
ImportPlantTypes(entries, i, pts, map) ==
    IF i > Len(entries) THEN [plantTypes |-> pts, map |-> map]
    ELSE LET r == UpsertPlantType(pts, map, entries[i])
         IN  ImportPlantTypes(entries, i + 1, r.plantTypes, r.map)

\* mutant: the new bed has no unit_measure default
NewBedWithoutUnitDefault(u, new_id, gb_data) ==
    [id |-> new_id,
     user_id |-> u,
     name |-> Get(gb_data, "name", "Unnamed Bed"),
     shape |-> Get(gb_data, "shape", "rectangle"),
     shape_params |-> Get(gb_data, "shape_params", PDict(EmptyMap)),
     unit_measure |-> Get(gb_data, "unit_measure", "feet")]

\* step 4, one entry: the GardenBed row built from gb_data
NewBedFromEntry(u, new_id, gb_data) ==
    [id |-> new_id,
     user_id |-> u,
     name |-> Get(gb_data, "name", "Unnamed Bed"),
     shape |-> Get(gb_data, "shape", "rectangle"),
     shape_params |-> Get(gb_data, "shape_params", PDict(EmptyMap)),
     unit_measure |-> Get(gb_data, "unit_measure", users[u].preferred_units)]

\* step 4: ok = FALSE when a flush raises (NULL in a nullable=False column)
RECURSIVE ImportGardenBeds(_, _, _, _, _)
ImportGardenBeds(u, entries, i, bs, map) ==
    IF i > Len(entries) THEN [ok |-> TRUE, beds |-> bs, map |-> map]
    ELSE LET gb_data == entries[i]
             new_bed == NewBedFromEntry(u, NextRowId(bs), gb_data)
         IN  IF ~BedNotNullOk(new_bed) THEN [ok |-> FALSE, beds |-> bs, map |-> map]
             ELSE ImportGardenBeds(u, entries, i + 1, bs \cup {new_bed},
                      IF "id" \in DOMAIN gb_data THEN Put(map, gb_data["id"], new_bed.id)
                      ELSE map)

\* mutant: one id map shared by plant types and beds, the bed entries
\* written last
ResolveThroughSharedMap(p_data, plant_type_id_map, garden_bed_id_map) ==
    LET shared == garden_bed_id_map @@ plant_type_id_map
        pt_known == "plant_type_id" \in DOMAIN p_data
                        /\ p_data["plant_type_id"] \in DOMAIN shared
        bed_known == "bed_id" \in DOMAIN p_data /\ p_data["bed_id"] \in DOMAIN shared
    IN  IF pt_known /\ bed_known
        THEN [skip |-> FALSE,
              plant_type_id |-> shared[p_data["plant_type_id"]],
              bed_id |-> shared[p_data["bed_id"]]]
        ELSE [skip |-> TRUE, plant_type_id |-> 0, bed_id |-> 0]

\* mutant: an id missing from a map is used as it stands in the document
ResolveFallsBackToDocIds(p_data, plant_type_id_map, garden_bed_id_map) ==
    IF "plant_type_id" \in DOMAIN p_data /\ "bed_id" \in DOMAIN p_data
    THEN [skip |-> FALSE,
          plant_type_id |-> Get(plant_type_id_map, p_data["plant_type_id"],
                                p_data["plant_type_id"]),
          bed_id |-> Get(garden_bed_id_map, p_data["bed_id"], p_data["bed_id"])]
    ELSE [skip |-> TRUE, plant_type_id |-> 0, bed_id |-> 0]

\* step 5, one entry: the ids the planting is attached to, or skip
ResolvePlanting(p_data, plant_type_id_map, garden_bed_id_map) ==
    LET pt_known == "plant_type_id" \in DOMAIN p_data
                        /\ p_data["plant_type_id"] \in DOMAIN plant_type_id_map
        bed_known == "bed_id" \in DOMAIN p_data
                        /\ p_data["bed_id"] \in DOMAIN garden_bed_id_map
    IN  IF pt_known /\ bed_known
        THEN [skip |-> FALSE,
              plant_type_id |-> plant_type_id_map[p_data["plant_type_id"]],
              bed_id |-> garden_bed_id_map[p_data["bed_id"]]]
        ELSE [skip |-> TRUE, plant_type_id |-> 0, bed_id |-> 0]

\* step 5: ok = FALSE when fromisoformat raises ValueError
RECURSIVE ImportPlantings(_, _, _, _, _)
ImportPlantings(entries, i, ps, plant_type_id_map, garden_bed_id_map) ==
    IF i > Len(entries) THEN [ok |-> TRUE, plantings |-> ps]
    ELSE LET p_data == entries[i]
             r == ResolvePlanting(p_data, plant_type_id_map, garden_bed_id_map)
             raw == Get(p_data, "date_planted", None)
             harvest == Get(p_data, "projected_harvest_date", None)
         IN  IF r.skip
             THEN ImportPlantings(entries, i + 1, ps, plant_type_id_map, garden_bed_id_map)
             ELSE IF raw # None /\ raw # "" /\ raw \notin DOMAIN IsoDates
             THEN [ok |-> FALSE, plantings |-> ps]
             ELSE IF harvest # None /\ harvest # "" /\ harvest \notin DOMAIN IsoDates
             THEN [ok |-> FALSE, plantings |-> ps]
             ELSE ImportPlantings(entries, i + 1,
                      ps \cup {[id |-> NextRowId(ps),
                                plant_type_id |-> r.plant_type_id,
                                bed_id |-> r.bed_id,
                                date_planted |-> IF raw = None \/ raw = "" THEN NoDate
                                                 ELSE IsoDates[raw],
                                expected_harvest_date |->
                                    IF harvest = None \/ harvest = "" THEN NoDate
                                    ELSE IsoDates[harvest]]},
                      plant_type_id_map, garden_bed_id_map)

\* mutant: step 6 stores the layout as it stands in the document
LayoutNotRewritten(content, garden_bed_id_map) == content

\* step 6: the ids of the entries of the layout's beds list, through the map
RewriteLayoutBeds(content, garden_bed_id_map) ==
    IF "beds" \in DOMAIN content /\ content["beds"].t = "list"
    THEN LET items == content["beds"].items
             Rewritten(bed_item) ==
                 IF "id" \in DOMAIN bed_item /\ bed_item["id"] \in DOMAIN garden_bed_id_map
                 THEN Put(bed_item, "id", garden_bed_id_map[bed_item["id"]])
                 ELSE bed_item
         IN  Put(content, "beds", LList([k \in 1..Len(items) |-> Rewritten(items[k])]))
    ELSE content

\* step 6: ok = FALSE when layout_data.get raises AttributeError (a non-empty
\* value that is not a dict)
ImportLayout(u, layout_data, ls, garden_bed_id_map) ==
    IF layout_data.kind \in {"empty", "null"} THEN [ok |-> TRUE, layouts |-> ls]
    ELSE IF layout_data.kind = "list" THEN [ok |-> FALSE, layouts |-> ls]
    ELSE IF layout_data.kind = "layout_dict"
    THEN [ok |-> TRUE,
          layouts |-> ls \cup
              {[id |-> NextRowId(ls), user_id |-> u,
                layout_json |-> JsonDumps(RewriteLayoutBeds(layout_data.layout,
                                                            garden_bed_id_map))]}]
    ELSE [ok |-> TRUE, layouts |-> ls]

\* mutant: the except branch without db.session.rollback()
RollbackMissing(committed, working) == working

\* db.session.rollback(): the tables are those of the last commit
Rollback(committed, working) == committed

DbFailPoints == {"none", "delete", "plant_types", "garden_beds", "plantings", "layout", "commit"}

\* the try block of import_user_data; dbFail names the step at which the
\* database raises an error (after the step's statements were issued)
ImportTransaction(committed, u, doc, dbFail) ==
    LET t1 == DeleteUserData(committed, u)
        s3 == ImportPlantTypes(doc.plant_types, 1, t1.plantTypes, EmptyIdMap)
        t3 == [t1 EXCEPT !.plantTypes = s3.plantTypes]
        s4 == ImportGardenBeds(u, doc.garden_beds, 1, t3.beds, EmptyIdMap)
        t4 == [t3 EXCEPT !.beds = s4.beds]
        s5 == ImportPlantings(doc.plantings, 1, t4.plantings, s3.map, s4.map)
        t5 == [t4 EXCEPT !.plantings = s5.plantings]
        s6 == ImportLayout(u, doc.garden_layout, t5.layouts, s4.map)
        t6 == [t5 EXCEPT !.layouts = s6.layouts]
        Failed(working) ==
            [status |-> 500, tx |-> Rollback(committed, working),
             plant_type_id_map |-> EmptyIdMap, garden_bed_id_map |-> EmptyIdMap]
    IN  IF dbFail = "delete" THEN Failed(t1)
        ELSE IF dbFail = "plant_types" THEN Failed(t3)
        ELSE IF ~s4.ok \/ dbFail = "garden_beds" THEN Failed(t4)
        ELSE IF ~s5.ok \/ dbFail = "plantings" THEN Failed(t5)
        ELSE IF ~s6.ok \/ dbFail = "layout" THEN Failed(t6)
        ELSE IF dbFail = "commit" THEN Failed(t6)
        ELSE [status |-> 200, tx |-> t6,
              plant_type_id_map |-> s3.map, garden_bed_id_map |-> s4.map]

\* mutant: the check of the top-level keys left out
ImportWithoutKeyCheck(committed, u, doc, dbFail) ==
    IF doc.kind # "json"
    THEN [status |-> 400, tx |-> committed,
          plant_type_id_map |-> EmptyIdMap, garden_bed_id_map |-> EmptyIdMap]
    ELSE ImportTransaction(committed, u, doc, dbFail)

\* import_user_data after the file checks: [status, tx, maps]
ImportUserDataResult(committed, u, doc, dbFail) ==
    IF doc.kind # "json" \/ ~(TopLevelKeys \subseteq doc.keys)
    THEN [status |-> 400, tx |-> committed,
          plant_type_id_map |-> EmptyIdMap, garden_bed_id_map |-> EmptyIdMap]
    ELSE ImportTransaction(committed, u, doc, dbFail)

Committed ==
    [beds |-> beds, plantTypes |-> plantTypes, plantings |-> plantings, layouts |-> layouts]

IdsWithin(tx) ==
    /\ \A r \in tx.beds : r.id <= MaxId
    /\ \A r \in tx.plantTypes : r.id <= MaxId
    /\ \A r \in tx.plantings : r.id <= MaxId
    /\ \A r \in tx.layouts : r.id <= MaxId

(***************************************************************************)
(* The documents fed to the import: a base document with one of its parts  *)
(* ranging over every list of at most MaxEntries entries, each entry being *)
(* the base entry with one key removed or changed.                         *)
(***************************************************************************)
Lists(S) == UNION {[1..n -> S] : n \in 0..MaxEntries}

\* f, f without one key, and f with one key set to one of alts[k]
Variations(f, alts) ==
    {f} \cup {Drop(f, k) : k \in DOMAIN f}
        \cup UNION {{Put(f, k, v) : v \in alts[k]} : k \in DOMAIN alts}

BasePlantType == [id |-> 1, common_name |-> "tomato", rotation_family |-> "nightshade"]

PlantTypeEntries ==
    Variations(BasePlantType,
               [id |-> {2}, common_name |-> {"bean"}, rotation_family |-> {"legume"}])

BaseBed ==
    [id |-> 1, name |-> "Bed A", shape |-> "rectangle", shape_params |-> RectOk,
     unit_measure |-> "feet"]

BedEntries ==
    Variations(BaseBed,
               [id |-> {2}, name |-> {None}, shape |-> {"circle"},
                shape_params |-> {RectNegative}])

BasePlanting == [plant_type_id |-> 1, bed_id |-> 1, date_planted |-> "2024-05-01"]

PlantingEntries ==
    Variations(BasePlanting,
               [plant_type_id |-> {2}, bed_id |-> {2}, date_planted |-> {"not-a-date"}])

LayoutItems == {[id |-> 1], [id |-> 2], [x |-> 0]}

LayoutContents ==
    {EmptyContent, [yard |-> LInt(10)], [beds |-> LInt(0)]}
        \cup {[beds |-> LList(l)] : l \in Lists(LayoutItems)}
        \cup {[beds |-> LList(l), yard |-> LInt(10)] : l \in Lists(LayoutItems)}

GardenLayoutValues ==
    {GLayout(k, EmptyContent) : k \in {"empty", "null", "list", "no_layout", "layout_not_dict"}}
        \cup {GLayout("layout_dict", c) : c \in LayoutContents}

BaseDoc ==
    [kind |-> "json", keys |-> TopLevelKeys,
     user_preferences |-> [preferred_units |-> "metric"],
     plant_types |-> <<BasePlantType>>,
     garden_beds |-> <<BaseBed>>,
     plantings |-> <<BasePlanting>>,
     garden_layout |-> GLayout("layout_dict", [beds |-> LList(<<[id |-> 1]>>)])]

\* two plant types and two beds, each kind numbered 1 and 2
TwoDoc ==
    [BaseDoc EXCEPT
        !.plant_types = <<BasePlantType,
                          [id |-> 2, common_name |-> "bean", rotation_family |-> "legume"]>>,
        !.garden_beds = <<BaseBed,
                          [id |-> 2, name |-> "Bed B", shape |-> "circle",
                           shape_params |-> CircleOk, unit_measure |-> "meters"]>>]

Docs ==
    {[BaseDoc EXCEPT !.plant_types = l] : l \in Lists(PlantTypeEntries)}
        \cup {[BaseDoc EXCEPT !.garden_beds = l] : l \in Lists(BedEntries)}
        \cup {[d EXCEPT !.plantings = l] : d \in {BaseDoc, TwoDoc}, l \in Lists(PlantingEntries)}
        \cup {[BaseDoc EXCEPT !.garden_layout = g] : g \in GardenLayoutValues}
        \cup {[BaseDoc EXCEPT !.user_preferences = [preferred_units |-> "imperial"]]}
        \cup {[BaseDoc EXCEPT !.keys = ks] : ks \in SUBSET TopLevelKeys}
        \cup {[BaseDoc EXCEPT !.kind = "malformed"]}

\* the documents during whose import the database is made to raise an error,
\* and the documents imported to populate the store
SeedDocs == {BaseDoc, TwoDoc}

\* step 2: the attribute `preferences` of the User object is assigned
SetUserPreferences(user, doc) ==
    IF "user_preferences" \in doc.keys
    THEN [k \in DOMAIN user \cup {"preferences"} |->
             IF k = "preferences" THEN JsonDumps(doc.user_preferences) ELSE user[k]]
    ELSE user

\* the row written for a User object at commit: its mapped columns, of
\* which the store keeps email and preferred_units
UserRow(user) == [email |-> user["email"], preferred_units |-> user["preferred_units"]]

\* the tables after the request of user u whose result is r
ImportStore(u, doc, r) ==
    /\ IdsWithin(r.tx)
    /\ beds' = r.tx.beds
    /\ plantTypes' = r.tx.plantTypes
    /\ plantings' = r.tx.plantings
    /\ layouts' = r.tx.layouts
    /\ users' = IF r.status = 200
                THEN [users EXCEPT ![u] = UserRow(SetUserPreferences(users[u], doc))]
                ELSE users
    /\ UNCHANGED <<pending, vVars>>

ImportUserData(u, doc, dbFail) ==
    LET r == ImportUserDataResult(Committed, u, doc, dbFail)
    IN  /\ dbFail # "none" => doc \in SeedDocs
        /\ ImportStore(u, doc, r)
        /\ last' = [op |-> "import", user |-> u, status |-> r.status, doc |-> doc,
                    db_error |-> dbFail, pre |-> Committed,
                    plant_type_id_map |-> r.plant_type_id_map,
                    garden_bed_id_map |-> r.garden_bed_id_map]

Init ==
    /\ InitDb
    /\ vShape = "rectangle"
    /\ vParams = RectOk
    /\ vResult = NotRun

\* the documents imported between bed requests carry beds only: the base bed,
\* and the base bed without its shape_params
BedsOnlyDoc ==
    [BaseDoc EXCEPT !.plant_types = <<>>, !.plantings = <<>>,
                    !.garden_layout = GLayout("empty", EmptyContent)]

BedDocs ==
    {BedsOnlyDoc, [BedsOnlyDoc EXCEPT !.garden_beds = <<Drop(BaseBed, "shape_params")>>]}

\* an import between bed requests
BedImport ==
    \E u \in Users, doc \in BedDocs :
        /\ ImportUserData(u, doc, "none")
        /\ \A b \in beds' : b.id <= MaxBedId
        /\ UNCHANGED phase

\* an import while the store is being populated; only its status is kept
SeedImport ==
    \E u \in Users, doc \in SeedDocs :
        LET r == ImportUserDataResult(Committed, u, doc, "none")
        IN  /\ ImportStore(u, doc, r)
            /\ last' = [op |-> "seed_import", user |-> u, status |-> r.status]
            /\ UNCHANGED phase

\* the import under check: any document, on any populated store
CheckedImport ==
    \E u \in Users, doc \in Docs, dbFail \in DbFailPoints :
        ImportUserData(u, doc, dbFail) /\ phase' = "done"

Next ==
    \/ FlaskCreateBed
    \/ FlaskUpdateBed
    \/ FastCreateBed
    \/ FastUpdateBed
    \/ BedImport

Spec == Init /\ [][Next]_vars

NextImport == phase = "seed" /\ (SeedImport \/ CheckedImport)

SpecImport == Init /\ [][NextImport]_vars

\* bed requests through either application, then one Flask bed write whose
\* body is kept
NextBedWrite ==
    /\ phase = "seed"
    /\ \/ FlaskCreateBed
       \/ FlaskUpdateBed
       \/ FastCreateBed
       \/ FastUpdateBed
       \/ BedImport
       \/ CheckedFlaskCreateBed
       \/ CheckedFlaskUpdateBed

SpecBedWrite == Init /\ [][NextBedWrite]_vars

(***************************************************************************)
(* Plant types, plantings, bed deletion and the data export (app.py and    *)
(* the FastAPI routers), run on a store that requests populate.            *)
(***************************************************************************)
\* while requests populate the store only the tables are kept
Populating == [op |-> "populate", status |-> 0]

\* request bodies of plant type creation
PlantTypeData ==
    {[common_name |-> n, scientific_name |-> "sp.", rotation_family |-> "nightshade"] :
        n \in {"tomato", "bean", ""}}
        \cup {[common_name |-> "tomato"]}

\* mutant: plant_type.common_name without its unique index
CreatePlantTypeNoIndex(data) ==
    IF ~(\A field \in {"common_name", "scientific_name"} :
             field \in DOMAIN data /\ data[field] \notin {None, ""})
    THEN [status |-> 400, plantTypes |-> plantTypes]
    ELSE [status |-> 201,
          plantTypes |-> plantTypes \cup
              {[id |-> NextRowId(plantTypes), common_name |-> data["common_name"],
                rotation_family |-> Get(data, "rotation_family", None)]}]

\* app.py create_plant_type: [status, plantTypes]; a second PlantType of the
\* same common_name violates the unique index at commit
CreatePlantTypeResult(data) ==
    IF ~(\A field \in {"common_name", "scientific_name"} :
             field \in DOMAIN data /\ data[field] \notin {None, ""})
    THEN [status |-> 400, plantTypes |-> plantTypes]
    ELSE IF \E p \in plantTypes : p.common_name = data["common_name"]
    THEN [status |-> 500, plantTypes |-> plantTypes]
    ELSE [status |-> 201,
          plantTypes |-> plantTypes \cup
              {[id |-> NextRowId(plantTypes), common_name |-> data["common_name"],
                rotation_family |-> Get(data, "rotation_family", None)]}]

CreatePlantType ==
    \E data \in PlantTypeData :
        LET r == CreatePlantTypeResult(data)
        IN  /\ plantTypes' = r.plantTypes
            /\ last' = Populating
            /\ UNCHANGED <<users, beds, plantings, layouts, phase, pending, vVars>>

\* request bodies of planting creation
PlantingData ==
    {[plant_type_id |-> pt, year |-> 2024, season |-> "Spring"] : pt \in 1..MaxPlantTypes + 1}
        \cup {[plant_type_id |-> 1, year |-> 2024, season |-> "Spring", date_planted |-> d] :
                 d \in {"2024-05-01", "not-a-date"}}
        \cup {[plant_type_id |-> 1]}

\* the Planting row of a creation request
NewPlanting(bed_id, plant_type_id, date_planted) ==
    [id |-> NextRowId(plantings), plant_type_id |-> plant_type_id, bed_id |-> bed_id,
     date_planted |-> date_planted, expected_harvest_date |-> NoDate]

\* strptime(..., '%Y-%m-%d').date() on the strings the model feeds it
ParseDate(text) == IsoDates[text]

\* app.py add_planting: [status, plantings]
AddPlantingResult(u, bed_id, data) ==
    IF ~(\E b \in beds : b.id = bed_id /\ b.user_id = u)
    THEN [status |-> 404, plantings |-> plantings]
    ELSE IF ~({"plant_type_id", "year", "season"} \subseteq DOMAIN data)
    THEN [status |-> 400, plantings |-> plantings]
    ELSE IF ~(\E p \in plantTypes : p.id = data["plant_type_id"])
    THEN [status |-> 404, plantings |-> plantings]
    ELSE IF "date_planted" \in DOMAIN data /\ data["date_planted"] \notin DOMAIN IsoDates
    THEN [status |-> 400, plantings |-> plantings]
    ELSE [status |-> 201,
          plantings |-> plantings \cup
              {NewPlanting(bed_id, data["plant_type_id"],
                           IF "date_planted" \in DOMAIN data
                           THEN ParseDate(data["date_planted"]) ELSE NoDate)}]

AddPlanting ==
    \E u \in Users, bed_id \in 1..MaxBedId, data \in PlantingData :
        LET r == AddPlantingResult(u, bed_id, data)
        IN  /\ NextRowId(plantings) <= MaxPlantings
            /\ plantings' = r.plantings
            /\ last' = Populating
            /\ UNCHANGED <<users, beds, plantTypes, layouts, phase, pending, vVars>>

\* app.py add_planting_to_bed: no identity is asked for, any bed will do
AddPlantingToBedResult(bed_id, data) ==
    IF ~(\E b \in beds : b.id = bed_id)
    THEN [status |-> 404, plantings |-> plantings]
    ELSE IF ~({"plant_type_id", "year"} \subseteq DOMAIN data)
    THEN [status |-> 400, plantings |-> plantings]
    ELSE IF ~(\E p \in plantTypes : p.id = data["plant_type_id"])
    THEN [status |-> 400, plantings |-> plantings]
    ELSE IF "date_planted" \in DOMAIN data /\ data["date_planted"] \notin DOMAIN IsoDates
    THEN [status |-> 400, plantings |-> plantings]
    ELSE [status |-> 201,
          plantings |-> plantings \cup
              {NewPlanting(bed_id, data["plant_type_id"],
                           IF "date_planted" \in DOMAIN data
                           THEN ParseDate(data["date_planted"]) ELSE NoDate)}]

AddPlantingToBed ==
    \E bed_id \in 1..MaxBedId, data \in PlantingData :
        LET r == AddPlantingToBedResult(bed_id, data)
        IN  /\ NextRowId(plantings) <= MaxPlantings
            /\ plantings' = r.plantings
            /\ last' = Populating
            /\ UNCHANGED <<users, beds, plantTypes, layouts, phase, pending, vVars>>

\* routers/plantings.py create_planting; schemas.PlantingCreate parses the
\* date (422 otherwise)
FastCreatePlantingResult(u, bed_id, data) ==
    IF "date_planted" \in DOMAIN data /\ data["date_planted"] \notin DOMAIN IsoDates
    THEN [status |-> 422, plantings |-> plantings]
    ELSE IF ~(\E b \in beds : b.id = bed_id /\ b.user_id = u)
    THEN [status |-> 404, plantings |-> plantings]
    ELSE IF ~(\E p \in plantTypes : p.id = data["plant_type_id"])
    THEN [status |-> 404, plantings |-> plantings]
    ELSE [status |-> 201,
          plantings |-> plantings \cup
              {NewPlanting(bed_id, data["plant_type_id"],
                           IF "date_planted" \in DOMAIN data
                           THEN ParseDate(data["date_planted"]) ELSE NoDate)}]

FastCreatePlanting ==
    \E u \in Users, bed_id \in 1..MaxBedId, data \in PlantingData :
        LET r == FastCreatePlantingResult(u, bed_id, data)
        IN  /\ NextRowId(plantings) <= MaxPlantings
            /\ plantings' = r.plantings
            /\ last' = Populating
            /\ UNCHANGED <<users, beds, plantTypes, layouts, phase, pending, vVars>>

\* db.session.delete(bed) and commit: GardenBed has no relationship to
\* Planting and the tables carry no ON DELETE rule, so the DELETE statement
\* removes the garden_bed row alone
DeleteBedRow(bed) ==
    [beds |-> beds \ {bed}, plantings |-> plantings]

\* app.py delete_bed: [status, beds, plantings]
FlaskDeleteBedResult(u, bed_id) ==
    LET found == {b \in beds : b.id = bed_id /\ b.user_id = u}
    IN  IF found = {} THEN [status |-> 404, beds |-> beds, plantings |-> plantings]
        ELSE LET d == DeleteBedRow(CHOOSE b \in found : TRUE)
             IN  [status |-> 200, beds |-> d.beds, plantings |-> d.plantings]

FlaskDeleteBed ==
    \E u \in Users, bed_id \in 1..MaxBedId :
        LET r == FlaskDeleteBedResult(u, bed_id)
        IN  /\ beds' = r.beds
            /\ plantings' = r.plantings
            /\ last' = Populating
            /\ UNCHANGED <<users, plantTypes, layouts, phase, pending, vVars>>

\* routers/garden_beds.py delete_garden_bed
FastDeleteBedResult(u, bed_id) ==
    LET found == {b \in beds : b.id = bed_id /\ b.user_id = u}
    IN  IF found = {} THEN [status |-> 404, beds |-> beds, plantings |-> plantings]
        ELSE LET d == DeleteBedRow(CHOOSE b \in found : TRUE)
             IN  [status |-> 204, beds |-> d.beds, plantings |-> d.plantings]

FastDeleteBed ==
    \E u \in Users, bed_id \in 1..MaxBedId :
        LET r == FastDeleteBedResult(u, bed_id)
        IN  /\ beds' = r.beds
            /\ plantings' = r.plantings
            /\ last' = Populating
            /\ UNCHANGED <<users, plantTypes, layouts, phase, pending, vVars>>

\* the rows of a query result, in primary-key order
RECURSIVE RowsById(_)
RowsById(rows) ==
    IF rows = {} THEN <<>>
    ELSE LET r == CHOOSE x \in rows : \A y \in rows : x.id <= y.id
         IN  <<r>> \o RowsById(rows \ {r})

\* date.isoformat(), None for no date
IsoFormat(d) ==
    IF d = NoDate THEN None ELSE CHOOSE text \in DOMAIN IsoDates : IsoDates[text] = d

\* the to_dict of models.py, on the fields the model keeps
PlantTypeToDict(pt) ==
    [id |-> pt.id, common_name |-> pt.common_name, rotation_family |-> pt.rotation_family]

GardenBedToDict(b) ==
    [id |-> b.id, name |-> b.name, shape |-> b.shape, shape_params |-> b.shape_params,
     unit_measure |-> b.unit_measure]

PlantingToDict(p) ==
    [id |-> p.id, bed_id |-> p.bed_id, plant_type_id |-> p.plant_type_id,
     date_planted |-> IsoFormat(p.date_planted),
     expected_harvest_date |-> IsoFormat(p.expected_harvest_date)]

\* a decoded JSON value that is an object (the other values carry a type tag)
IsJsonObject(v) == "t" \notin DOMAIN v

\* GardenLayout.to_dict() as the import reads it back: its `layout` member
GardenLayoutToDict(l) ==
    LET content == JsonLoads(l.layout_json)
    IN  IF IsJsonObject(content) THEN GLayout("layout_dict", content)
        ELSE GLayout("layout_not_dict", content)

\* mutant: the bed query of the export without its user filter
ExportedBedsOfAll(tx, u) == tx.beds

\* the user filters of the export queries
ExportedBeds(tx, u) == {b \in tx.beds : b.user_id = u}

ExportedPlantings(tx, u) ==
    {p \in tx.plantings : \E b \in tx.beds : b.id = p.bed_id /\ b.user_id = u}

\* app.py export_user_data: the document sent to user u
export_user_data(tx, us, u) ==
    LET garden_layout == {l \in tx.layouts : l.user_id = u}
    IN  [kind |-> "json", keys |-> TopLevelKeys,
         user_preferences |-> [preferred_units |-> us[u].preferred_units],
         plant_types |-> [i \in 1..Cardinality(tx.plantTypes) |->
                             PlantTypeToDict(RowsById(tx.plantTypes)[i])],
         garden_beds |-> [i \in 1..Cardinality(ExportedBeds(tx, u)) |->
                             GardenBedToDict(RowsById(ExportedBeds(tx, u))[i])],
         plantings |-> [i \in 1..Cardinality(ExportedPlantings(tx, u)) |->
                           PlantingToDict(RowsById(ExportedPlantings(tx, u))[i])],
         garden_layout |-> IF garden_layout = {} THEN GLayout("empty", EmptyContent)
                           ELSE GardenLayoutToDict(CHOOSE l \in garden_layout : TRUE)]

\* GET /api/data/export by user u
ExportUserData ==
    \E u \in Users :
        /\ last' = [op |-> "export", user |-> u, status |-> 200,
                    doc |-> export_user_data(Committed, users, u)]
        /\ phase' = "done"
        /\ UNCHANGED <<users, beds, plantTypes, plantings, layouts, pending, vVars>>

\* user b has no bed, planting or layout
FreshUser(b) ==
    /\ BedsOf(b) = {}
    /\ \A l \in layouts : l.user_id # b

\* the export of user a imported by the fresh user b
ExportThenImport ==
    \E a \in Users, b \in Users :
        LET doc == export_user_data(Committed, users, a)
            r == ImportUserDataResult(Committed, b, doc, "none")
        IN  /\ a # b
            /\ FreshUser(b)
            /\ ImportStore(b, doc, r)
            /\ last' = [op |-> "export_import", from |-> a, user |-> b,
                        status |-> r.status, doc |-> doc, pre |-> Committed]
            /\ phase' = "done"

\* an import while the store is being populated
GardenImport ==
    \E u \in Users, doc \in SeedDocs :
        LET r == ImportUserDataResult(Committed, u, doc, "none")
        IN  /\ ImportStore(u, doc, r)
            /\ \A b \in beds' : b.id <= MaxBedId
            /\ \A p \in plantings' : p.id <= MaxPlantings
            /\ last' = Populating
            /\ UNCHANGED phase

\* a bed created while the store is being populated
GardenCreateBed ==
    \E u \in Users, data \in CreateBedData :
        LET r == FlaskCreateBedResult(u, data)
        IN  /\ NextRowId(beds) <= MaxBedId
            /\ beds' = r.beds
            /\ last' = Populating
            /\ UNCHANGED <<users, plantTypes, plantings, layouts, phase, pending, vVars>>

NextGarden ==
    /\ phase = "seed"
    /\ \/ CreatePlantType
       \/ GardenCreateBed
       \/ AddPlanting
       \/ AddPlantingToBed
       \/ FastCreatePlanting
       \/ FlaskDeleteBed
       \/ FastDeleteBed
       \/ GardenImport
       \/ ExportUserData
       \/ ExportThenImport

SpecGarden == Init /\ [][NextGarden]_vars

(***************************************************************************)
(* Layout save (app.py save_garden_layout).  The handler reads the user's  *)
(* layout row and writes at its commit; requests of other clients may      *)
(* commit in between, so a save is a read step and a write step.           *)
(***************************************************************************)
\* in-flight saves the model allows at a time
MaxPending == 2

\* largest primary key handed out in garden_layout while saves are interleaved
MaxLayoutId == 2

NoRow == [id |-> 0]

\* the `layout` member of the request bodies: maps, and a list
NewLayouts == {[yard |-> LInt(10)], [beds |-> LList(<<>>)], LList(<<>>)}

\* mutant: the incoming document replaces the stored one
MergeOverwrites(existing_layout, new_layout) == new_layout

\* the merge loop: every key of new_layout set in a copy of the stored map
\* (an empty map when the stored document is not a map)
MergeLayout(existing_layout, new_layout) ==
    LET base == IF IsJsonObject(existing_layout) THEN existing_layout ELSE EmptyContent
    IN  [k \in DOMAIN base \cup DOMAIN new_layout |->
            IF k \in DOMAIN new_layout THEN new_layout[k] ELSE base[k]]

\* mutant: the garden_layout table without its unique index on user_id
InsertLayoutNotUnique(ls, u, new_layout) ==
    [status |-> 200,
     layouts |-> ls \cup {[id |-> NextRowId(ls), user_id |-> u,
                           layout_json |-> JsonDumps(new_layout)]}]

\* the INSERT of a first layout; user_id is unique in garden_layout
InsertLayout(ls, u, new_layout) ==
    IF \E l \in ls : l.user_id = u
    THEN [status |-> 500, layouts |-> ls]
    ELSE [status |-> 200,
          layouts |-> ls \cup {[id |-> NextRowId(ls), user_id |-> u,
                                layout_json |-> JsonDumps(new_layout)]}]

\* the UPDATE of the row read before: it addresses the row by primary key
\* and fails when no row matches
UpdateLayout(ls, existing, merged_layout) ==
    IF ~(\E l \in ls : l.id = existing.id)
    THEN [status |-> 500, layouts |-> ls]
    ELSE [status |-> 200,
          layouts |-> {IF l.id = existing.id
                       THEN [l EXCEPT !.layout_json = JsonDumps(merged_layout)]
                       ELSE l : l \in ls}]

\* the write half of save_garden_layout for the request req = [user,
\* new_layout, existing], on the table as it is now: [status, layouts]
SaveLayoutWrite(ls, req) ==
    IF req.existing # NoRow
    THEN IF ~IsJsonObject(req.new_layout)
         THEN [status |-> 500, layouts |-> ls]     \* new_layout.items()
         ELSE UpdateLayout(ls, req.existing,
                           MergeLayout(JsonLoads(req.existing.layout_json), req.new_layout))
    ELSE InsertLayout(ls, req.user, req.new_layout)

\* the read half: the request with the row the query returned
SaveLayoutRead(ls, u, new_layout) ==
    [user |-> u, new_layout |-> new_layout,
     existing |-> IF \E l \in ls : l.user_id = u
                  THEN CHOOSE l \in ls : l.user_id = u ELSE NoRow]

\* a body without `layout` is answered 400 before anything is read
SaveLayoutRefused ==
    /\ last' = [op |-> "save_layout_refused", status |-> 400]
    /\ phase' = "done"
    /\ UNCHANGED <<users, beds, plantTypes, plantings, layouts, pending, vVars>>

SaveLayoutBegin ==
    \E u \in Users, new_layout \in NewLayouts :
        /\ Cardinality(pending) < MaxPending
        /\ pending' = pending \cup {SaveLayoutRead(layouts, u, new_layout)}
        /\ last' = Populating
        /\ UNCHANGED <<users, beds, plantTypes, plantings, layouts, phase, vVars>>

SaveLayoutFinish ==
    \E req \in pending :
        LET r == SaveLayoutWrite(layouts, req)
        IN  /\ layouts' = r.layouts
            /\ \A l \in layouts' : l.id <= MaxLayoutId
            /\ pending' = pending \ {req}
            /\ last' = Populating
            /\ UNCHANGED <<users, beds, plantTypes, plantings, phase, vVars>>

\* a save whose request and result are kept
CheckedSaveLayout ==
    \E req \in pending :
        LET r == SaveLayoutWrite(layouts, req)
        IN  /\ layouts' = r.layouts
            /\ \A l \in layouts' : l.id <= MaxLayoutId
            /\ pending' = pending \ {req}
            /\ last' = [op |-> "save_layout", status |-> r.status, user |-> req.user,
                        new_layout |-> req.new_layout, existing |-> req.existing,
                        pre |-> layouts]
            /\ phase' = "done"
            /\ UNCHANGED <<users, beds, plantTypes, plantings, vVars>>

\* the documents imported between saves carry a layout or none, and no
\* plant type, bed or planting
LayoutOnlyDoc == [BaseDoc EXCEPT !.plant_types = <<>>, !.garden_beds = <<>>, !.plantings = <<>>]

LayoutDocs ==
    {LayoutOnlyDoc, [LayoutOnlyDoc EXCEPT !.garden_layout = GLayout("empty", EmptyContent)]}

LayoutImport ==
    \E u \in Users, doc \in LayoutDocs :
        LET r == ImportUserDataResult(Committed, u, doc, "none")
        IN  /\ ImportStore(u, doc, r)
            /\ \A l \in layouts' : l.id <= MaxLayoutId
            /\ last' = Populating
            /\ UNCHANGED phase

NextLayout ==
    /\ phase = "seed"
    /\ \/ SaveLayoutBegin
       \/ SaveLayoutFinish
       \/ CheckedSaveLayout
       \/ SaveLayoutRefused
       \/ LayoutImport

SpecLayout == Init /\ [][NextLayout]_vars

(***************************************************************************)
(* Plant types and the plantings that use them: routers/plant_types.py     *)
(* delete_plant_type, routers/plantings.py create_planting and             *)
(* update_planting, app.py update_planting.  Each request runs on its own  *)
(* connection; what a request has read stays in pending until it writes.   *)
(***************************************************************************)
\* routers/plant_types.py delete_plant_type, lines 102-115: the two queries
\* that precede the delete; 0 stands for "go on"
DeletePlantTypeCheck(plant_type_id) ==
    IF ~(\E t \in plantTypes : t.id = plant_type_id) THEN 404
    ELSE IF \E p \in plantings : p.plant_type_id = plant_type_id THEN 409
    ELSE 0

DeletePlantTypeBegin ==
    \E plant_type_id \in 1..MaxPlantTypes :
        /\ Cardinality(pending) < MaxPending
        /\ pending' = IF DeletePlantTypeCheck(plant_type_id) = 0
                      THEN pending \cup {[op |-> "delete_plant_type", id |-> plant_type_id,
                                         stage |-> "checked"]}
                      ELSE pending
        /\ last' = Populating
        /\ UNCHANGED <<users, beds, plantTypes, plantings, layouts, phase, vVars>>

\* db.delete(plant_type); db.commit(), first half: the flush loads
\* PlantType.plantings (models.py: relationship without cascade) to detach
\* the children; planting.plant_type_id is NOT NULL, so a child found here
\* makes the flush fail and the request ends with a 500
DeletePlantTypeFlush ==
    \E req \in pending :
        /\ req.op = "delete_plant_type" /\ req.stage = "checked"
        /\ pending' = IF \E p \in plantings : p.plant_type_id = req.id
                      THEN pending \ {req}
                      ELSE (pending \ {req}) \cup {[req EXCEPT !.stage = "flushed"]}
        /\ last' = Populating
        /\ UNCHANGED <<users, beds, plantTypes, plantings, layouts, phase, vVars>>

\* second half: DELETE FROM plant_type WHERE id = ..., committed.  Foreign
\* keys are not enforced on the SQLite connection, so the statement does not
\* look at the planting table
DeletePlantTypeRow(plant_type_id) ==
    {t \in plantTypes : t.id # plant_type_id}

DeletePlantTypeFinish ==
    \E req \in pending :
        /\ req.op = "delete_plant_type" /\ req.stage = "flushed"
        /\ plantTypes' = DeletePlantTypeRow(req.id)
        /\ pending' = pending \ {req}
        /\ last' = Populating
        /\ UNCHANGED <<users, beds, plantings, layouts, phase, vVars>>

\* routers/plantings.py create_planting, lines 25-41: bed and plant type are
\* looked up; 0 stands for "go on"
CreatePlantingCheck(u, bed_id, data) ==
    IF ~(\E b \in beds : b.id = bed_id /\ b.user_id = u) THEN 404
    ELSE IF ~(\E t \in plantTypes : t.id = data["plant_type_id"]) THEN 404
    ELSE 0

CreatePlantingBegin ==
    \E u \in Users, bed_id \in 1..MaxBedId, plant_type_id \in 1..MaxPlantTypes :
        /\ Cardinality(pending) < MaxPending
        /\ pending' = IF CreatePlantingCheck(u, bed_id, [plant_type_id |-> plant_type_id]) = 0
                      THEN pending \cup {[op |-> "create_planting", bed_id |-> bed_id,
                                         plant_type_id |-> plant_type_id]}
                      ELSE pending
        /\ last' = Populating
        /\ UNCHANGED <<users, beds, plantTypes, plantings, layouts, phase, vVars>>

\* lines 49-52: INSERT INTO planting, committed
CreatePlantingFinish ==
    \E req \in pending :
        /\ req.op = "create_planting"
        /\ NextRowId(plantings) <= MaxPlantings
        /\ plantings' = plantings \cup {NewPlanting(req.bed_id, req.plant_type_id, NoDate)}
        /\ pending' = pending \ {req}
        /\ last' = Populating
        /\ UNCHANGED <<users, beds, plantTypes, layouts, phase, vVars>>

\* app.py update_planting with a body that carries plant_type_id
FlaskUpdatePlantingResult(u, planting_id, data) ==
    LET found == {p \in plantings : p.id = planting_id}
    IN  IF found = {} THEN [status |-> 404, plantings |-> plantings]
        ELSE LET planting == CHOOSE p \in found : TRUE
             IN  IF ~(\E b \in beds : b.id = planting.bed_id /\ b.user_id = u)
                 THEN [status |-> 403, plantings |-> plantings]
                 ELSE IF ~(\E t \in plantTypes : t.id = data["plant_type_id"])
                 THEN [status |-> 400, plantings |-> plantings]
                 ELSE [status |-> 200,
                       plantings |-> (plantings \ {planting}) \cup
                           {[planting EXCEPT !.plant_type_id = data["plant_type_id"]]}]

FlaskUpdatePlanting ==
    \E u \in Users, planting_id \in 1..MaxPlantings, plant_type_id \in 1..MaxPlantTypes + 1 :
        LET r == FlaskUpdatePlantingResult(u, planting_id, [plant_type_id |-> plant_type_id])
        IN  /\ plantings' = r.plantings
            /\ last' = Populating
            /\ UNCHANGED <<users, beds, plantTypes, layouts, phase, pending, vVars>>

\* routers/plantings.py update_planting with a body that carries
\* plant_type_id: the new plant type is looked up only when it differs
FastUpdatePlantingResult(u, planting_id, data) ==
    LET found == {p \in plantings : p.id = planting_id}
    IN  IF found = {} THEN [status |-> 404, plantings |-> plantings]
        ELSE LET planting == CHOOSE p \in found : TRUE
             IN  IF ~(\E b \in beds : b.id = planting.bed_id /\ b.user_id = u)
                 THEN [status |-> 403, plantings |-> plantings]
                 ELSE IF data["plant_type_id"] # planting.plant_type_id
                         /\ ~(\E t \in plantTypes : t.id = data["plant_type_id"])
                 THEN [status |-> 404, plantings |-> plantings]
                 ELSE [status |-> 200,
                       plantings |-> (plantings \ {planting}) \cup
                           {[planting EXCEPT !.plant_type_id = data["plant_type_id"]]}]

FastUpdatePlanting ==
    \E u \in Users, planting_id \in 1..MaxPlantings, plant_type_id \in 1..MaxPlantTypes + 1 :
        LET r == FastUpdatePlantingResult(u, planting_id, [plant_type_id |-> plant_type_id])
        IN  /\ plantings' = r.plantings
            /\ last' = Populating
            /\ UNCHANGED <<users, beds, plantTypes, layouts, phase, pending, vVars>>

\* imported documents of this section: beds, plant types and a planting, no
\* layout
PlantTypeDocs ==
    {[d EXCEPT !.garden_layout = GLayout("empty", EmptyContent)] : d \in SeedDocs}

PlantTypeImport ==
    \E u \in Users, doc \in PlantTypeDocs :
        LET r == ImportUserDataResult(Committed, u, doc, "none")
        IN  /\ ImportStore(u, doc, r)
            /\ \A b \in beds' : b.id <= MaxBedId
            /\ \A p \in plantings' : p.id <= MaxPlantings
            /\ last' = Populating
            /\ UNCHANGED phase

NextPlantType ==
    /\ phase = "seed"
    /\ \/ CreatePlantType
       \/ PlantTypeImport
       \/ AddPlanting
       \/ CreatePlantingBegin
       \/ CreatePlantingFinish
       \/ FlaskUpdatePlanting
       \/ FastUpdatePlanting
       \/ DeletePlantTypeBegin
       \/ DeletePlantTypeFlush
       \/ DeletePlantTypeFinish

SpecPlantType == Init /\ [][NextPlantType]_vars

(***************************************************************************)
(* Requests on beds and plantings, recorded with their caller, on a        *)
(* populated store.                                                        *)
(***************************************************************************)
\* the caller of a request that carries no token
Anonymous == 0

\* app.py add_planting_to_bed: the route has no jwt_required, the caller is
\* whoever sends the request
CheckedAddPlantingToBed ==
    \E bed_id \in 1..MaxBedId, data \in PlantingData :
        LET r == AddPlantingToBedResult(bed_id, data)
        IN  /\ NextRowId(plantings) <= MaxPlantings
            /\ plantings' = r.plantings
            /\ last' = [op |-> "request", route |-> "add_planting_to_bed", caller |-> Anonymous,
                        status |-> r.status, bed_id |-> bed_id,
                        beds |-> beds, plantings |-> plantings, layouts |-> layouts]
            /\ phase' = "done"
            /\ UNCHANGED <<users, beds, plantTypes, layouts, pending, vVars>>

\* app.py add_planting
CheckedAddPlanting ==
    \E u \in Users, bed_id \in 1..MaxBedId, data \in PlantingData :
        LET r == AddPlantingResult(u, bed_id, data)
        IN  /\ NextRowId(plantings) <= MaxPlantings
            /\ plantings' = r.plantings
            /\ last' = [op |-> "request", route |-> "add_planting", caller |-> u,
                        status |-> r.status, bed_id |-> bed_id,
                        beds |-> beds, plantings |-> plantings, layouts |-> layouts]
            /\ phase' = "done"
            /\ UNCHANGED <<users, beds, plantTypes, layouts, pending, vVars>>

\* app.py delete_bed
CheckedFlaskDeleteBed ==
    \E u \in Users, bed_id \in 1..MaxBedId :
        LET r == FlaskDeleteBedResult(u, bed_id)
        IN  /\ beds' = r.beds
            /\ plantings' = r.plantings
            /\ last' = [op |-> "request", route |-> "delete_bed", caller |-> u,
                        status |-> r.status, bed_id |-> bed_id,
                        beds |-> beds, plantings |-> plantings, layouts |-> layouts]
            /\ phase' = "done"
            /\ UNCHANGED <<users, plantTypes, layouts, pending, vVars>>

NextOwner ==
    /\ phase = "seed"
    /\ \/ CreatePlantType
       \/ PlantTypeImport
       \/ AddPlanting
       \/ CheckedAddPlantingToBed
       \/ CheckedAddPlanting
       \/ CheckedFlaskDeleteBed

SpecOwner == Init /\ [][NextOwner]_vars

(***************************************************************************)
(* The database session of a Flask request (db.session): tx is the state   *)
(* of its transaction, objs the objects it holds that were not written.    *)
(* db.init_app(app) ties the session to the request: it is removed when    *)
(* the request's context is torn down, before the response leaves the      *)
(* application.                                                            *)
(***************************************************************************)
CleanSession == [tx |-> "none", objs |-> {}]

\* db.session.rollback() in an except branch
SessionRollback(sess) == CleanSession

\* mutant: the session outlives the request
SessionKept(sess) == sess

\* the teardown registered by db.init_app(app): session.remove()
ShutdownSession(sess) == CleanSession

\* the session as save_garden_layout leaves it; its except branch (779-780)
\* answers 500 without a rollback
SaveLayoutSession(ls, req) ==
    IF SaveLayoutWrite(ls, req).status = 200 THEN CleanSession
    ELSE IF req.existing # NoRow /\ ~IsJsonObject(req.new_layout)
    THEN [tx |-> "open", objs |-> {}]               \* raised before any write
    ELSE IF req.existing # NoRow
    THEN [tx |-> "failed", objs |-> {"existing"}]   \* the UPDATE failed in commit
    ELSE [tx |-> "failed", objs |-> {"layout"}]     \* the INSERT failed in commit

\* the session as import_user_data leaves it: its except branch (1083-1086)
\* rolls back
ImportSession(r) ==
    IF r.status = 500 THEN SessionRollback([tx |-> "failed", objs |-> {"import"}])
    ELSE CleanSession

\* the session as create_plant_type leaves it (472-475)
CreatePlantTypeSession(r) ==
    IF r.status = 500 THEN SessionRollback([tx |-> "failed", objs |-> {"new_plant_type"}])
    ELSE CleanSession

\* a layout save up to the end of its request
BoundarySaveLayout ==
    \E req \in pending :
        LET r == SaveLayoutWrite(layouts, req)
        IN  /\ layouts' = r.layouts
            /\ pending' = pending \ {req}
            /\ last' = [op |-> "boundary", route |-> "save_garden_layout",
                        status |-> r.status, existing |-> req.existing, user |-> req.user,
                        session |-> ShutdownSession(SaveLayoutSession(layouts, req)),
                        pre |-> Committed]
            /\ phase' = "done"
            /\ UNCHANGED <<users, beds, plantTypes, plantings, vVars>>

\* an import up to the end of its request
BoundaryImport ==
    \E u \in Users, doc \in SeedDocs, dbFail \in DbFailPoints :
        LET r == ImportUserDataResult(Committed, u, doc, dbFail)
        IN  /\ ImportStore(u, doc, r)
            /\ last' = [op |-> "boundary", route |-> "import_user_data",
                        status |-> r.status, existing |-> NoRow, user |-> u,
                        session |-> ShutdownSession(ImportSession(r)),
                        pre |-> Committed]
            /\ phase' = "done"

\* a plant type creation up to the end of its request
BoundaryCreatePlantType ==
    \E data \in PlantTypeData :
        LET r == CreatePlantTypeResult(data)
        IN  /\ plantTypes' = r.plantTypes
            /\ last' = [op |-> "boundary", route |-> "create_plant_type",
                        status |-> r.status, existing |-> NoRow, user |-> Anonymous,
                        session |-> ShutdownSession(CreatePlantTypeSession(r)),
                        pre |-> Committed]
            /\ phase' = "done"
            /\ UNCHANGED <<users, beds, plantings, layouts, pending, vVars>>

NextBoundary ==
    /\ phase = "seed"
    /\ \/ GardenImport
       \/ SaveLayoutBegin
       \/ BoundarySaveLayout
       \/ BoundaryImport
       \/ BoundaryCreatePlantType

SpecBoundary == Init /\ [][NextBoundary]_vars

(***************************************************************************)
(* Planting recommendations (app.py get_planting_recommendations) on a     *)
(* store whose plantings carry their year and season.                      *)
(***************************************************************************)
\* plant type bodies with two rotation families and without one
RecPlantTypeData ==
    {[common_name |-> "tomato", scientific_name |-> "sp.", rotation_family |-> "nightshade"],
     [common_name |-> "bean", scientific_name |-> "sp.", rotation_family |-> "legume"],
     [common_name |-> "basil", scientific_name |-> "sp."]}

RecCreatePlantType ==
    \E data \in RecPlantTypeData :
        LET r == CreatePlantTypeResult(data)
        IN  /\ plantTypes' = r.plantTypes
            /\ last' = Populating
            /\ UNCHANGED <<users, beds, plantings, layouts, phase, pending, vVars>>

RecPlantingData ==
    {[plant_type_id |-> pt, year |-> y, season |-> sn] :
        pt \in 1..3, y \in {2023, 2024}, sn \in {"Spring", "Fall"}}

\* app.py add_planting, the row with its year and season columns
RecAddPlanting ==
    \E u \in Users, bed_id \in 1..MaxBedId, data \in RecPlantingData :
        LET r == AddPlantingResult(u, bed_id, data)
        IN  /\ NextRowId(plantings) <= MaxPlantings
            /\ plantings' = plantings \cup
                   {[id |-> p.id, bed_id |-> p.bed_id, plant_type_id |-> p.plant_type_id,
                     date_planted |-> p.date_planted,
                     expected_harvest_date |-> p.expected_harvest_date,
                     year |-> data["year"], season |-> data["season"]] :
                        p \in r.plantings \ plantings}
            /\ last' = Populating
            /\ UNCHANGED <<users, beds, plantTypes, layouts, phase, pending, vVars>>

\* the order of the season strings in the database (binary collation)
SeasonRank == [Fall |-> 1, Spring |-> 2]

\* ORDER BY year DESC, season DESC: p comes before q
SortsBefore(p, q) ==
    \/ p.year > q.year
    \/ p.year = q.year /\ SeasonRank[p.season] > SeasonRank[q.season]

\* the rows .first() may return: those no other row of the bed sorts before
FirstPlantings(bed_id) ==
    LET ofBed == {p \in plantings : p.bed_id = bed_id}
    IN  {p \in ofBed : ~(\E q \in ofBed : SortsBefore(q, p))}

\* PlantType.rotation_family != last_rotation_family as SQL evaluates it: the
\* comparison with a NULL rotation_family is not true
SqlNotEqual(column, value) == column # None /\ column # value

\* get_planting_recommendations once most_recent_planting is known (NoRow for
\* a bed without plantings): [status, last_planted_family, recommendations]
GetRecommendationsResult(u, bed_id, most_recent_planting) ==
    IF ~(\E b \in beds : b.id = bed_id /\ b.user_id = u)
    THEN [status |-> 404, last_planted_family |-> None, recommendations |-> {}]
    ELSE IF most_recent_planting # NoRow
            /\ ~(\E t \in plantTypes : t.id = most_recent_planting.plant_type_id)
    THEN [status |-> 500, last_planted_family |-> None, recommendations |-> {}]
    ELSE LET last_rotation_family ==
                 IF most_recent_planting = NoRow THEN None
                 ELSE (CHOOSE t \in plantTypes :
                           t.id = most_recent_planting.plant_type_id).rotation_family
         IN  [status |-> 200, last_planted_family |-> last_rotation_family,
              recommendations |->
                  IF last_rotation_family \notin {None, ""}
                  THEN {t.id : t \in {x \in plantTypes :
                                         SqlNotEqual(x.rotation_family, last_rotation_family)}}
                  ELSE {t.id : t \in plantTypes}]

GetRecommendations ==
    \E u \in Users, bed_id \in 1..MaxBedId :
        \E most_recent_planting \in
                IF FirstPlantings(bed_id) = {} THEN {NoRow} ELSE FirstPlantings(bed_id) :
            LET r == GetRecommendationsResult(u, bed_id, most_recent_planting)
            IN  /\ last' = [op |-> "recommendations", user |-> u, bed_id |-> bed_id,
                            status |-> r.status, most_recent_planting |-> most_recent_planting,
                            last_planted_family |-> r.last_planted_family,
                            recommendations |-> r.recommendations]
                /\ phase' = "done"
                /\ UNCHANGED <<users, beds, plantTypes, plantings, layouts, pending, vVars>>

NextRecommend ==
    /\ phase = "seed"
    /\ \/ RecCreatePlantType
       \/ GardenCreateBed
       \/ RecAddPlanting
       \/ GetRecommendations

SpecRecommend == Init /\ [][NextRecommend]_vars

(***************************************************************************)
(* The plant type catalog: every operation that writes plant_type.         *)
(* last keeps the route, its status and whether the request named a        *)
(* common_name that was stored already or that it lists twice.             *)
(***************************************************************************)
Catalog(route, status, dup) ==
    [op |-> "catalog", route |-> route, status |-> status, dup |-> dup]

CatalogCreatePlantType ==
    \E data \in PlantTypeData :
        LET r == CreatePlantTypeResult(data)
        IN  /\ plantTypes' = r.plantTypes
            /\ last' = Catalog("create_plant_type", r.status,
                               \E t \in plantTypes : t.common_name = Get(data, "common_name", None))
            /\ UNCHANGED <<users, beds, plantings, layouts, phase, pending, vVars>>

\* routers/plant_types.py create_plant_type; PlantTypeCreate requires
\* common_name to be a string and accepts the empty one
FastCreatePlantTypeResult(data) ==
    IF \E t \in plantTypes : t.common_name = data["common_name"]
    THEN [status |-> 409, plantTypes |-> plantTypes]
    ELSE [status |-> 201,
          plantTypes |-> plantTypes \cup
              {[id |-> NextRowId(plantTypes), common_name |-> data["common_name"],
                rotation_family |-> Get(data, "rotation_family", None)]}]

FastCreatePlantType ==
    \E data \in {d \in PlantTypeData : "scientific_name" \in DOMAIN d} :
        LET r == FastCreatePlantTypeResult(data)
        IN  /\ plantTypes' = r.plantTypes
            /\ last' = Catalog("fast_create_plant_type", r.status,
                               \E t \in plantTypes : t.common_name = data["common_name"])
            /\ UNCHANGED <<users, beds, plantings, layouts, phase, pending, vVars>>

\* routers/plant_types.py update_plant_type with a body that sets common_name
FastUpdatePlantTypeResult(plant_type_id, update_data) ==
    LET found == {t \in plantTypes : t.id = plant_type_id}
    IN  IF found = {} THEN [status |-> 404, plantTypes |-> plantTypes]
        ELSE LET plant_type == CHOOSE t \in found : TRUE
             IN  IF update_data["common_name"] # plant_type.common_name
                    /\ \E t \in plantTypes : t.common_name = update_data["common_name"]
                 THEN [status |-> 409, plantTypes |-> plantTypes]
                 ELSE [status |-> 200,
                       plantTypes |-> (plantTypes \ {plant_type}) \cup
                           {[plant_type EXCEPT !.common_name = update_data["common_name"]]}]

FastUpdatePlantType ==
    \E plant_type_id \in 1..MaxId, common_name \in {"tomato", "bean"} :
        LET r == FastUpdatePlantTypeResult(plant_type_id, [common_name |-> common_name])
        IN  /\ plantTypes' = r.plantTypes
            /\ last' = Catalog("update_plant_type", r.status,
                               \E t \in plantTypes : t.common_name = common_name)
            /\ UNCHANGED <<users, beds, plantings, layouts, phase, pending, vVars>>

\* str.strip() on the cell texts the model feeds it
Strip(text) == IF text = " tomato " THEN "tomato" ELSE text

\* the rows of an uploaded CSV file; a row shorter than the header has None
\* in its missing cells
CsvRows ==
    {[common_name |-> n, scientific_name |-> "sp."] : n \in {"tomato", " tomato ", "bean", ""}}
        \cup {[common_name |-> "bean", scientific_name |-> None]}

\* plant_import.py import_plants, the loop from row i on; pts holds the rows
\* of the session (the lookup flushes what was added before): [ok, plantTypes]
RECURSIVE CsvLoop(_, _, _)
CsvLoop(rows, i, pts) ==
    IF i > Len(rows) THEN [ok |-> TRUE, plantTypes |-> pts]
    ELSE IF rows[i].common_name = None \/ rows[i].scientific_name = None
    THEN [ok |-> FALSE, plantTypes |-> pts]              \* None.strip() raises
    ELSE LET common_name == Strip(rows[i].common_name)
             scientific_name == Strip(rows[i].scientific_name)
         IN  IF common_name = "" \/ scientific_name = ""
             THEN CsvLoop(rows, i + 1, pts)
             ELSE IF \E t \in pts : t.common_name = common_name
             THEN CsvLoop(rows, i + 1, pts)
             ELSE CsvLoop(rows, i + 1,
                          pts \cup {[id |-> NextRowId(pts), common_name |-> common_name,
                                     rotation_family |-> None]})

\* import_plants: commit, or rollback and 500 when the loop raised
ImportPlantsResult(rows) ==
    LET r == CsvLoop(rows, 1, plantTypes)
    IN  IF r.ok THEN [status |-> 200, plantTypes |-> r.plantTypes]
        ELSE [status |-> 500, plantTypes |-> plantTypes]

\* a name of rows that is stored already or that an earlier row carries
NamesTwice(rows, names) ==
    \E i \in DOMAIN rows :
        \/ \E t \in plantTypes : t.common_name = names[i]
        \/ \E j \in DOMAIN rows : j < i /\ names[j] = names[i]

ImportPlants ==
    \E rows \in Lists(CsvRows) :
        LET r == ImportPlantsResult(rows)
        IN  /\ plantTypes' = r.plantTypes
            /\ last' = Catalog("import_plants", r.status,
                               NamesTwice(rows, [i \in DOMAIN rows |->
                                   IF rows[i].common_name = None THEN None
                                   ELSE Strip(rows[i].common_name)]))
            /\ UNCHANGED <<users, beds, plantings, layouts, phase, pending, vVars>>

\* seed.py initial_plants, the first two of its ten distinct entries
initial_plants ==
    <<[common_name |-> "Tomato", rotation_family |-> "Nightshade"],
      [common_name |-> "Carrot", rotation_family |-> "Root Vegetable"]>>

RECURSIVE SeedLoop(_, _)
SeedLoop(i, pts) ==
    IF i > Len(initial_plants) THEN pts
    ELSE IF \E t \in pts : t.common_name = initial_plants[i].common_name
    THEN SeedLoop(i + 1, pts)
    ELSE SeedLoop(i + 1,
                  pts \cup {[id |-> NextRowId(pts),
                             common_name |-> initial_plants[i].common_name,
                             rotation_family |-> initial_plants[i].rotation_family]})

\* seed.py seed_database
seed_database ==
    /\ plantTypes' = SeedLoop(1, plantTypes)
    /\ last' = Catalog("seed_database", 0,
                       \E i \in DOMAIN initial_plants :
                           \E t \in plantTypes : t.common_name = initial_plants[i].common_name)
    /\ UNCHANGED <<users, beds, plantings, layouts, phase, pending, vVars>>

\* imported documents whose plant_types part varies and may repeat a name
CatalogDocs ==
    {[BaseDoc EXCEPT !.plant_types = l, !.garden_beds = <<>>, !.plantings = <<>>,
                     !.garden_layout = GLayout("empty", EmptyContent)] :
        l \in Lists(PlantTypeEntries)}

CatalogImport ==
    \E u \in Users, doc \in CatalogDocs :
        LET r == ImportUserDataResult(Committed, u, doc, "none")
        IN  /\ ImportStore(u, doc, r)
            /\ last' = Catalog("import_user_data", r.status,
                               NamesTwice(doc.plant_types,
                                          [i \in DOMAIN doc.plant_types |->
                                              Get(doc.plant_types[i], "common_name", None)]))
            /\ UNCHANGED phase

NextCatalog ==
    \/ CatalogCreatePlantType
    \/ FastCreatePlantType
    \/ FastUpdatePlantType
    \/ ImportPlants
    \/ seed_database
    \/ CatalogImport

SpecCatalog == Init /\ [][NextCatalog]_vars

(***************************************************************************)
(* Registration (app.py register_user, routers/auth.py register_user).     *)
(* The handler looks the email up and inserts at its commit; requests of   *)
(* other clients may commit in between, so a registration is a read step   *)
(* and a write step.  users is the user table in primary-key order.        *)
(***************************************************************************)
\* the email members of the request bodies
RegisterEmails == {"a@example.com", "c@example.com", "d@example.com", ""}

Registered(us, email) == \E i \in DOMAIN us : us[i].email = email

\* register_user up to its lookup: 400 for a missing email (422 from the
\* FastAPI schema), 409 for a stored one, 0 for "go on"
RegisterCheck(application, email) ==
    IF email = "" THEN (IF application = "flask" THEN 400 ELSE 422)
    ELSE IF Registered(users, email) THEN 409
    ELSE 0

\* mutant: user.email without its unique index
InsertUserNotUnique(us, application, email) ==
    [status |-> 201,
     users |-> Append(us, [email |-> email, preferred_units |-> "imperial"])]

\* the INSERT at commit; email is unique in user.  The Flask handler rolls
\* back and answers 500, the FastAPI handler lets the error through (500)
InsertUser(us, application, email) ==
    IF Registered(us, email)
    THEN [status |-> 500, users |-> us]
    ELSE [status |-> 201,
          users |-> Append(us, [email |-> email, preferred_units |-> "imperial"])]

Register(status, email, existed, before) ==
    [op |-> "register", status |-> status, email |-> email,
     existed |-> existed, before |-> before]

RegisterBegin ==
    \E application \in {"flask", "fastapi"}, email \in RegisterEmails, n \in 1..MaxPending :
        LET status == RegisterCheck(application, email)
        IN  /\ \A req \in pending : req.n # n
            /\ pending' = IF status = 0
                          THEN pending \cup {[op |-> "register", n |-> n,
                                             application |-> application, email |-> email]}
                          ELSE pending
            /\ last' = IF status = 0 THEN Populating
                       ELSE Register(status, email, Registered(users, email), Len(users))
            /\ UNCHANGED <<users, beds, plantTypes, plantings, layouts, phase, vVars>>

RegisterFinish ==
    \E req \in pending :
        LET r == InsertUser(users, req.application, req.email)
        IN  /\ users' = r.users
            /\ pending' = pending \ {req}
            /\ last' = Register(r.status, req.email, Registered(users, req.email), Len(users))
            /\ UNCHANGED <<beds, plantTypes, plantings, layouts, phase, vVars>>

\* requests of the registered users between registrations
NextRegister ==
    \/ RegisterBegin
    \/ RegisterFinish
    \/ (phase = "seed" /\ LayoutImport)

SpecRegister == Init /\ [][NextRegister]_vars

(***************************************************************************)
(* Planting dates through update, export and import (app.py                *)
(* update_planting, export_user_data, import_user_data step 5).            *)
(***************************************************************************)
\* request bodies of update_planting that carry expected_harvest_date only
HarvestData ==
    {[expected_harvest_date |-> d] : d \in {"2024-08-01", "2024-05-01", "", "not-a-date"}}

\* app.py update_planting with such a body: [status, plantings]
FlaskUpdateHarvestResult(u, planting_id, data) ==
    LET found == {p \in plantings : p.id = planting_id}
    IN  IF found = {} THEN [status |-> 404, plantings |-> plantings]
        ELSE LET planting == CHOOSE p \in found : TRUE
                 text == data["expected_harvest_date"]
             IN  IF ~(\E b \in beds : b.id = planting.bed_id /\ b.user_id = u)
                 THEN [status |-> 403, plantings |-> plantings]
                 ELSE IF text # "" /\ text \notin DOMAIN IsoDates
                 THEN [status |-> 400, plantings |-> plantings]
                 ELSE [status |-> 200,
                       plantings |-> (plantings \ {planting}) \cup
                           {[planting EXCEPT !.expected_harvest_date =
                                 IF text = "" THEN NoDate ELSE IsoDates[text]]}]

FlaskUpdateHarvest ==
    \E u \in Users, planting_id \in 1..MaxPlantings, data \in HarvestData :
        LET r == FlaskUpdateHarvestResult(u, planting_id, data)
        IN  /\ plantings' = r.plantings
            /\ last' = Populating
            /\ UNCHANGED <<users, beds, plantTypes, layouts, phase, pending, vVars>>

\* planting entries of an import document with their date fields present,
\* absent, null, empty or unparsable; the harvest date under the key the
\* export writes and under the key the import reads
HarvestEntries ==
    {BasePlanting, Drop(BasePlanting, "date_planted")}
        \cup {Put(BasePlanting, "date_planted", v) : v \in {None, ""}}
        \cup {Put(BasePlanting, k, v) :
                 k \in {"expected_harvest_date", "projected_harvest_date"},
                 v \in {"2024-08-01", None, "", "not-a-date"}}

\* documents of one such entry, alone or after an entry the import skips
HarvestDocs ==
    {[BaseDoc EXCEPT !.plantings = <<e>>] : e \in HarvestEntries}
        \cup {[BaseDoc EXCEPT !.plantings = <<Put(BasePlanting, "bed_id", 2), e>>] :
                 e \in HarvestEntries}

\* POST /api/data/import of such a document
HarvestImport ==
    \E u \in Users, doc \in HarvestDocs :
        ImportUserData(u, doc, "none") /\ phase' = "done"

NextHarvest ==
    /\ phase = "seed"
    /\ \/ GardenImport
       \/ FlaskUpdateHarvest
       \/ HarvestImport
       \/ ExportThenImport

SpecHarvest == Init /\ [][NextHarvest]_vars

(***************************************************************************)
(* Properties.                                                             *)
(***************************************************************************)
ImportDone == last.op = "import"

ImportSucceeded == last.op = "import" /\ last.status = 200

PlantingsOf(u) == {p \in plantings : p.bed_id \in {b.id : b \in BedsOf(u)}}

LayoutsOf(u) == {l \in layouts : l.user_id = u}

\* C1. Every persisted GardenBed has a (shape, shape_params) pair that the
\* shape validator accepts, after any sequence of bed creates, bed updates
\* and imports through the Flask and the FastAPI routes.
AllBedsValid ==
    \A b \in beds : validate_bed_shape_and_params(b.shape, b.shape_params).ok

(***************************************************************************)
(* C2.  For the four shapes and every string-keyed params map the          *)
(* validator returns valid exactly when every documented required key is   *)
(* present with a numeric (JSON number) value > 0, and for c-rectangle     *)
(* missing_side is one of the four sides, missing_width < width and        *)
(* missing_height < height; otherwise it returns invalid.                  *)
(***************************************************************************)
JsonNumber(v) == v.t \in {"int", "float"}

DocumentedNumericKeys ==
    [rectangle |-> {"width", "height"},
     circle |-> {"radius"},
     pill |-> {"width", "height", "border_radius"}] @@
    ("c-rectangle" :> {"width", "height", "missing_width", "missing_height"})

DocumentedValid(shape, m) ==
    /\ \A k \in DocumentedNumericKeys[shape] :
          k \in DOMAIN m /\ JsonNumber(m[k]) /\ m[k].n > 0
    /\ shape = "c-rectangle" =>
          /\ "missing_side" \in DOMAIN m
          /\ m["missing_side"].t = "str"
          /\ m["missing_side"].s \in MissingSides
          /\ m["missing_width"].n < m["width"].n
          /\ m["missing_height"].n < m["height"].n

ValidatorAcceptsExactlyDocumented ==
    (vResult # NotRun /\ vShape \in GardenBedShapeList /\ vParams.kind = "dict") =>
        /\ ~vResult.raised
        /\ vResult.ok <=> DocumentedValid(vShape, vParams.m)

\* C3. An import that fails after its deletions were issued (status 500: an
\* unparsable planting date, a NULL in a required column, a non-dict
\* garden_layout, a database error at any step) leaves beds, plantings,
\* layouts, users and plant types exactly as they were before the request.
FailedImportChangesNothing ==
    (ImportDone /\ last.status = 500) =>
        /\ Committed = last.pre
        /\ users = InitUsers

\* C3 witness: an import of a document with an unparsable planting date
\* failed for a user who owns beds, plantings and a layout.
FailedImportWitness ==
    /\ ImportDone /\ last.status = 500 /\ last.db_error = "none"
    /\ \E i \in 1..Len(last.doc.plantings) :
          Get(last.doc.plantings[i], "date_planted", None) = "not-a-date"
    /\ BedsOf(last.user) # {}
    /\ PlantingsOf(last.user) # {}
    /\ LayoutsOf(last.user) # {}

\* C4. An import whose file does not decode, or whose document lacks one of
\* the five top-level keys, fails with an error (400) and leaves every table
\* as it was before the request.
BadDocumentRejectedUnchanged ==
    (ImportDone /\ (last.doc.kind # "json" \/ ~(TopLevelKeys \subseteq last.doc.keys))) =>
        /\ last.status = 400
        /\ Committed = last.pre
        /\ users = InitUsers

\* C4 witness: a document without its plantings key was refused for a user
\* who owns beds, plantings and a layout.
BadDocumentWitness ==
    /\ ImportDone /\ last.status = 400
    /\ last.doc.kind = "json" /\ "plantings" \notin last.doc.keys
    /\ BedsOf(last.user) # {}
    /\ PlantingsOf(last.user) # {}
    /\ LayoutsOf(last.user) # {}

(***************************************************************************)
(* What a successful import is expected to leave, read off the document.   *)
(***************************************************************************)
\* entries of a list, as indices
Idx(l) == 1..Len(l)

Range(f) == {f[x] : x \in DOMAIN f}

\* largest id of a set of rows, 0 for none
IdBase(rows) == IF rows = {} THEN 0 ELSE Max({r.id : r \in rows})

HasName(e) == "common_name" \in DOMAIN e /\ e["common_name"] \notin {None, ""}

\* old ids the document gives to plant types and to beds
PtKeys(doc) == {doc.plant_types[i]["id"] :
                   i \in {j \in Idx(doc.plant_types) :
                            "id" \in DOMAIN doc.plant_types[j] /\ HasName(doc.plant_types[j])}}

BedKeys(doc) == {doc.garden_beds[i]["id"] :
                    i \in {j \in Idx(doc.garden_beds) : "id" \in DOMAIN doc.garden_beds[j]}}

\* the planting entry names a plant type and a bed of the document
Resolvable(doc, e) ==
    /\ "plant_type_id" \in DOMAIN e /\ e["plant_type_id"] \in PtKeys(doc)
    /\ "bed_id" \in DOMAIN e /\ e["bed_id"] \in BedKeys(doc)

\* nothing in the document makes the database or the parser raise
DocImportable(doc) ==
    /\ doc.kind = "json" /\ TopLevelKeys \subseteq doc.keys
    /\ \A i \in Idx(doc.garden_beds) :
          /\ Get(doc.garden_beds[i], "name", "") # None
          /\ Get(doc.garden_beds[i], "shape", "") # None
          /\ Get(doc.garden_beds[i], "unit_measure", "") # None
    /\ \A i \in Idx(doc.plantings) :
          Resolvable(doc, doc.plantings[i]) =>
              /\ Get(doc.plantings[i], "date_planted", None)
                     \in {None, ""} \cup DOMAIN IsoDates
              /\ Get(doc.plantings[i], "projected_harvest_date", None)
                     \in {None, ""} \cup DOMAIN IsoDates
    /\ doc.garden_layout.kind # "list"

\* rows of the other users before the import
OtherBedsBefore == {b \in last.pre.beds : b.user_id # last.user}

OwnBedsBefore == {b \in last.pre.beds : b.user_id = last.user}

OwnPlantingsBefore ==
    {p \in last.pre.plantings : p.bed_id \in {b.id : b \in OwnBedsBefore}}

OtherPlantingsBefore == last.pre.plantings \ OwnPlantingsBefore

OwnLayoutsBefore == {l \in last.pre.layouts : l.user_id = last.user}

\* the planting rows this import inserted
CreatedPlantings == plantings \ OtherPlantingsBefore

UnresolvedPlantingsSkipped ==
    /\ (ImportDone /\ last.db_error = "none" /\ DocImportable(last.doc)) =>
           last.status = 200
    /\ ImportSucceeded =>
        LET doc == last.doc
        IN  /\ DOMAIN last.plant_type_id_map = PtKeys(doc)
            /\ DOMAIN last.garden_bed_id_map = BedKeys(doc)
            /\ Cardinality(CreatedPlantings) =
                   Cardinality({i \in Idx(doc.plantings) : Resolvable(doc, doc.plantings[i])})
            /\ \A p \in CreatedPlantings :
                  /\ p.bed_id \in Range(last.garden_bed_id_map)
                  /\ \E b \in beds \ OtherBedsBefore :
                        b.id = p.bed_id /\ b.user_id = last.user
                  /\ p.plant_type_id \in Range(last.plant_type_id_map)
                  /\ \E pt \in plantTypes : pt.id = p.plant_type_id

\* C6 witness: a successful import that skipped an unresolvable planting
\* entry and created the planting of the entry after it.
SkippedPlantingWitness ==
    /\ ImportSucceeded
    /\ Len(last.doc.plantings) = 2
    /\ ~Resolvable(last.doc, last.doc.plantings[1])
    /\ Resolvable(last.doc, last.doc.plantings[2])
    /\ Cardinality(CreatedPlantings) = 1
    /\ OtherPlantingsBefore # {}

\* bed ids in the beds list of a stored layout document
LayoutBedIds(content) ==
    IF "beds" \in DOMAIN content /\ content["beds"].t = "list"
    THEN {content["beds"].items[i]["id"] :
             i \in {j \in Idx(content["beds"].items) : "id" \in DOMAIN content["beds"].items[j]}}
    ELSE {}

\* C7. After a successful import every cross-entity reference the import
\* stored was obtained through the id maps: each created planting points at
\* a bed and a plant type of this import, and every bed id in the stored
\* layout's beds list denotes a bed created by this import.
StoredReferencesAreRemapped ==
    ImportSucceeded =>
        /\ \A p \in CreatedPlantings :
              /\ p.bed_id \in Range(last.garden_bed_id_map)
              /\ p.plant_type_id \in Range(last.plant_type_id_map)
        /\ \A l \in LayoutsOf(last.user) :
              LayoutBedIds(JsonLoads(l.layout_json)) \subseteq {b.id : b \in BedsOf(last.user)}

\* the entry of a layout's beds list as step 6 is to store it
ExpectedLayoutItem(item) ==
    IF "id" \in DOMAIN item /\ item["id"] \in DOMAIN last.garden_bed_id_map
    THEN [k \in DOMAIN item |->
             IF k = "id" THEN last.garden_bed_id_map[item["id"]] ELSE item[k]]
    ELSE item

\* stored is the document's layout map with the ids of its beds list replaced
LayoutStoredFrom(orig, stored) ==
    /\ DOMAIN stored = DOMAIN orig
    /\ \A k \in DOMAIN orig \ {"beds"} : stored[k] = orig[k]
    /\ "beds" \in DOMAIN orig =>
          IF orig["beds"].t = "list"
          THEN /\ stored["beds"].t = "list"
               /\ Len(stored["beds"].items) = Len(orig["beds"].items)
               /\ \A i \in Idx(orig["beds"].items) :
                     stored["beds"].items[i] = ExpectedLayoutItem(orig["beds"].items[i])
          ELSE stored["beds"] = orig["beds"]

Named(pts, common_name) == {p \in pts : p.common_name = common_name}

\* the last of the named entries satisfying Test
LastEntry(entries, Test(_)) ==
    Max({i \in Idx(entries) : HasName(entries[i]) /\ Test(entries[i])})

\* C9. After a successful import, for each plant_types entry with a
\* common_name there is exactly one PlantType of that name; if one existed
\* before it keeps its id, and its rotation_family is the one of the last
\* entry of that name giving one (else the previous value, or none for a new
\* PlantType); the entry's old id is mapped to the id of the PlantType of
\* the last entry carrying that old id.
PlantTypesUpsertedByName ==
    ImportSucceeded =>
        LET entries == last.doc.plant_types
        IN  /\ DOMAIN last.plant_type_id_map = PtKeys(last.doc)
            /\ \A i \in Idx(entries) :
                  HasName(entries[i]) =>
                      LET name == entries[i]["common_name"]
                          before == Named(last.pre.plantTypes, name)
                          SameName(e) == e["common_name"] = name
                          GivesFamily(e) == SameName(e) /\ "rotation_family" \in DOMAIN e
                          SameId(e) == "id" \in DOMAIN e /\ "id" \in DOMAIN entries[i]
                                           /\ e["id"] = entries[i]["id"]
                      IN  /\ Cardinality(Named(plantTypes, name)) = 1
                          /\ \A p \in Named(plantTypes, name) :
                                /\ \A q \in before : p.id = q.id
                                /\ before = {} => p.id \notin {q.id : q \in last.pre.plantTypes}
                                /\ p.rotation_family =
                                      IF \E j \in Idx(entries) :
                                             HasName(entries[j]) /\ GivesFamily(entries[j])
                                      THEN entries[LastEntry(entries, GivesFamily)]["rotation_family"]
                                      ELSE IF before # {}
                                      THEN (CHOOSE q \in before : TRUE).rotation_family
                                      ELSE None
                                /\ ("id" \in DOMAIN entries[i]
                                        /\ LastEntry(entries, SameId) = i) =>
                                       last.plant_type_id_map[entries[i]["id"]] = p.id
            /\ \A q \in last.pre.plantTypes :
                  (\A i \in Idx(entries) :
                       ~(HasName(entries[i]) /\ entries[i]["common_name"] = q.common_name))
                      => q \in plantTypes

\* C9 witness: one import that updated the existing PlantType "tomato" in
\* place and created the PlantType "bean".
PlantTypeUpsertWitness ==
    /\ ImportSucceeded
    /\ \E q \in last.pre.plantTypes, p \in plantTypes :
          /\ p.id = q.id /\ p.common_name = "tomato" /\ q.common_name = "tomato"
          /\ p.rotation_family # q.rotation_family
    /\ Named(last.pre.plantTypes, "bean") = {}
    /\ Named(plantTypes, "bean") # {}

\* C10. After a successful import there is exactly one GardenBed per
\* garden_beds entry, owned by the importing user, with an id the store
\* assigned after the ids in use (whatever id the entry carries), the
\* entry's name, shape (default "rectangle"), shape_params and unit_measure
\* (default the user's preferred units); the entry's old id is mapped to the
\* new id of the last entry carrying it.
BedsCreatedPerEntry ==
    ImportSucceeded =>
        LET entries == last.doc.garden_beds
            base == IdBase(OtherBedsBefore)
        IN  /\ Cardinality(BedsOf(last.user)) = Len(entries)
            /\ DOMAIN last.garden_bed_id_map = BedKeys(last.doc)
            /\ \A i \in Idx(entries) :
                  /\ Cardinality({b \in beds : b.id = base + i}) = 1
                  /\ \A b \in {x \in beds : x.id = base + i} :
                        /\ b.user_id = last.user
                        /\ b.id \notin {x.id : x \in OtherBedsBefore}
                        /\ b.name = Get(entries[i], "name", "Unnamed Bed")
                        /\ b.shape = Get(entries[i], "shape", "rectangle")
                        /\ b.shape_params = Get(entries[i], "shape_params", PDict(EmptyMap))
                        /\ b.unit_measure =
                               Get(entries[i], "unit_measure",
                                   users[last.user].preferred_units)
                  /\ ("id" \in DOMAIN entries[i]
                          /\ \A j \in Idx(entries) :
                                ("id" \in DOMAIN entries[j]
                                     /\ entries[j]["id"] = entries[i]["id"]) => j <= i)
                      => last.garden_bed_id_map[entries[i]["id"]] = base + i

\* C10 witness: two beds created, the second from an entry without
\* unit_measure, with new ids that differ from the ids in the document.
BedsCreatedWitness ==
    /\ ImportSucceeded
    /\ Len(last.doc.garden_beds) = 2
    /\ "unit_measure" \notin DOMAIN last.doc.garden_beds[2]
    /\ \E b \in BedsOf(last.user) :
          /\ b.id = IdBase(OtherBedsBefore) + 2
          /\ b.unit_measure = users[last.user].preferred_units
    /\ "id" \in DOMAIN last.doc.garden_beds[1]
    /\ last.garden_bed_id_map[last.doc.garden_beds[1]["id"]] # last.doc.garden_beds[1]["id"]

\* C11. After a successful import whose user_preferences carries
\* preferred_units, the preferred_units of the importing User is the
\* imported value.
ImportedUnitsApplied ==
    (ImportSucceeded /\ "preferred_units" \in DOMAIN last.doc.user_preferences) =>
        users[last.user].preferred_units = last.doc.user_preferences["preferred_units"]

\* C12. No import, successful or failed, deletes a PlantType: every
\* PlantType id present before the request is present after it.
PlantTypesNeverDeleted ==
    ImportDone =>
        {q.id : q \in last.pre.plantTypes} \subseteq {p.id : p \in plantTypes}

\* C12 witness: a successful import of a document without plant types, by a
\* user whose plantings (deleted by the import) used the two plant types of
\* the catalog.
PlantTypesKeptWitness ==
    /\ ImportSucceeded
    /\ last.doc.plant_types = <<>>
    /\ Cardinality(last.pre.plantTypes) = 2
    /\ OwnPlantingsBefore # {}
    /\ PlantingsOf(last.user) = {}
    /\ plantTypes = last.pre.plantTypes

RoundTripDone == last.op = "export_import"

\* the beds and plantings user a had when the export was taken
BedsExported == {x \in last.pre.beds : x.user_id = last.from}

PlantingsExported ==
    {p \in last.pre.plantings : p.bed_id \in {x.id : x \in BedsExported}}

\* C13. Importing the document exported for user A into a fresh user B
\* succeeds and gives B as many beds and as many plantings as A had, leaves
\* as many plant types in the catalog (one per common_name), and every
\* planting of B refers to a bed of B and to an existing plant type.
ExportImportReproduces ==
    RoundTripDone =>
        /\ last.status = 200
        /\ Cardinality(BedsOf(last.user)) = Cardinality(BedsExported)
        /\ Cardinality(PlantingsOf(last.user)) = Cardinality(PlantingsExported)
        /\ Cardinality(plantTypes) = Cardinality(last.pre.plantTypes)
        /\ \A p, q \in plantTypes : p.common_name = q.common_name => p = q
        /\ \A p \in PlantingsOf(last.user) :
              /\ \E x \in BedsOf(last.user) : x.id = p.bed_id
              /\ \E pt \in plantTypes : pt.id = p.plant_type_id

ExportDone == last.op = "export"

\* C14. The export document of a user has the five top-level keys; its
\* garden_beds are exactly the user's beds, its plantings exactly the
\* plantings whose bed the user owns, its plant_types all plant types, its
\* garden_layout the user's layout or {} when there is none; no bed,
\* planting or layout of another user is in it.
ExportHoldsOwnData ==
    ExportDone =>
        LET doc == last.doc
            own == {b.id : b \in BedsOf(last.user)}
        IN  /\ doc.keys = TopLevelKeys
            /\ doc.user_preferences["preferred_units"] = users[last.user].preferred_units
            /\ Len(doc.garden_beds) = Cardinality(BedsOf(last.user))
            /\ {doc.garden_beds[i]["id"] : i \in Idx(doc.garden_beds)} = own
            /\ \A i \in Idx(doc.garden_beds) :
                  \E b \in BedsOf(last.user) :
                      /\ doc.garden_beds[i]["id"] = b.id
                      /\ doc.garden_beds[i]["name"] = b.name
                      /\ doc.garden_beds[i]["shape"] = b.shape
                      /\ doc.garden_beds[i]["shape_params"] = b.shape_params
                      /\ doc.garden_beds[i]["unit_measure"] = b.unit_measure
            /\ Len(doc.plantings) = Cardinality(PlantingsOf(last.user))
            /\ {doc.plantings[i]["id"] : i \in Idx(doc.plantings)} =
                   {p.id : p \in PlantingsOf(last.user)}
            /\ \A i \in Idx(doc.plantings) :
                  /\ doc.plantings[i]["bed_id"] \in own
                  /\ \E p \in PlantingsOf(last.user) :
                        /\ doc.plantings[i]["id"] = p.id
                        /\ doc.plantings[i]["bed_id"] = p.bed_id
                        /\ doc.plantings[i]["plant_type_id"] = p.plant_type_id
            /\ Len(doc.plant_types) = Cardinality(plantTypes)
            /\ {doc.plant_types[i]["common_name"] : i \in Idx(doc.plant_types)} =
                   {pt.common_name : pt \in plantTypes}
            /\ IF LayoutsOf(last.user) = {}
               THEN doc.garden_layout = GLayout("empty", EmptyContent)
               ELSE \E l \in LayoutsOf(last.user) :
                       doc.garden_layout.layout = JsonLoads(l.layout_json)

\* C14 witness: an export for a user owning a bed, a planting and a layout
\* while the other user owns a bed, a planting and a layout too.
ExportWitness ==
    /\ ExportDone
    /\ PlantingsOf(last.user) # {}
    /\ LayoutsOf(last.user) # {}
    /\ \E o \in Users \ {last.user} : PlantingsOf(o) # {} /\ LayoutsOf(o) # {}

SaveDone == last.op = "save_layout"

\* no other request changed the user's layout between the read and the
\* write of the save
SaveUndisturbed ==
    {l \in last.pre : l.user_id = last.user} =
        IF last.existing = NoRow THEN {} ELSE {last.existing}

\* C15. A save by a user without a layout stores the given document
\* verbatim; a save by a user with a layout leaves a stored document that
\* has every key of the incoming document with the incoming value (nested
\* values replaced whole) and every other previously stored key with its
\* previous value.
LayoutSavedOrMerged ==
    (SaveDone /\ SaveUndisturbed
         /\ (last.existing = NoRow \/ IsJsonObject(last.new_layout))) =>
        /\ last.status = 200
        /\ Cardinality(LayoutsOf(last.user)) = 1
        /\ {l \in layouts : l.user_id # last.user} = {l \in last.pre : l.user_id # last.user}
        /\ \A l \in LayoutsOf(last.user) :
              LET stored == JsonLoads(l.layout_json)
                  old == JsonLoads(last.existing.layout_json)
                  oldKeys == IF IsJsonObject(old) THEN DOMAIN old ELSE {}
              IN  IF last.existing = NoRow
                  THEN stored = last.new_layout
                  ELSE /\ DOMAIN stored = DOMAIN last.new_layout \cup oldKeys
                       /\ \A k \in DOMAIN last.new_layout : stored[k] = last.new_layout[k]
                       /\ \A k \in oldKeys \ DOMAIN last.new_layout : stored[k] = old[k]

\* C15 witness: a save of {yard} onto a stored layout {beds} left both keys.
LayoutMergedWitness ==
    /\ SaveDone /\ SaveUndisturbed /\ last.status = 200
    /\ last.existing # NoRow
    /\ DOMAIN JsonLoads(last.existing.layout_json) = {"beds"}
    /\ DOMAIN last.new_layout = {"yard"}
    /\ \E l \in LayoutsOf(last.user) :
          /\ DOMAIN JsonLoads(l.layout_json) = {"beds", "yard"}
          /\ JsonLoads(l.layout_json)["beds"] = JsonLoads(last.existing.layout_json)["beds"]

\* C16. In every reachable state each user owns at most one GardenLayout,
\* whatever the interleaving of layout saves and imports.
AtMostOneLayoutPerUser ==
    \A u \in Users : Cardinality(LayoutsOf(u)) <= 1

\* C16 witness: a first-time save that had seen no layout was refused at
\* its write because another first-time save of the same user had stored
\* one in between.
SecondFirstSaveWitness ==
    /\ SaveDone /\ last.status = 500
    /\ last.existing = NoRow
    /\ \E l \in last.pre : l.user_id = last.user
    /\ Cardinality(LayoutsOf(last.user)) = 1

BedWriteDone == last.op \in {"checked_flask_create_bed", "checked_flask_update_bed"}

\* the body carries a shape and a shape_params that the validator rejects
PairRejected(data) ==
    /\ {"shape", "shape_params"} \subseteq DOMAIN data
    /\ ~validate_bed_shape_and_params(data["shape"], data["shape_params"]).raised
    /\ ~validate_bed_shape_and_params(data["shape"], data["shape_params"]).ok

\* C17. A Flask bed creation, or a Flask update of a bed the user owns,
\* whose body carries a shape/shape_params pair the validator rejects is
\* answered 400 and stores nothing: no bed is added and no field of the
\* targeted bed (or of any bed) differs from its value before the request.
RejectedBedWriteStoresNothing ==
    (BedWriteDone /\ PairRejected(last.data)
         /\ (last.op = "checked_flask_update_bed" =>
                 \E b \in last.pre : b.id = last.bed_id /\ b.user_id = last.user)) =>
        /\ last.status = 400
        /\ beds = last.pre

\* C17 witness: an update carrying a new name, a new unit and a rejected
\* pair (circle with rectangle parameters) was refused.
RejectedUpdateWitness ==
    /\ last.op = "checked_flask_update_bed"
    /\ PairRejected(last.data)
    /\ \E b \in last.pre : b.id = last.bed_id /\ b.user_id = last.user /\ b.name # "Bed Z"
    /\ "name" \in DOMAIN last.data /\ last.data["name"] = "Bed Z"
    /\ last.data["shape"] = "circle" /\ last.data["shape_params"] = RectOk
    /\ last.status = 400

\* C18. For every shape name outside rectangle, circle, pill, c-rectangle
\* and any params value, the validator returns invalid with the reason
\* "Shape must be one of: rectangle, circle, pill, c-rectangle."
UnknownShapeRejected ==
    (vResult # NotRun /\ vShape \notin {"rectangle", "circle", "pill", "c-rectangle"}) =>
        vResult = [ok |-> FALSE, raised |-> FALSE,
                   msg |-> "Shape must be one of: rectangle, circle, pill, c-rectangle."]

\* C18 witness: validate("hexagon", {}) has returned, and so has a call
\* with an unknown shape and a params value that is not a map.
UnknownShapeWitness ==
    /\ vResult # NotRun
    /\ vShape = "hexagon"
    /\ vParams = PDict(EmptyMap)
    /\ ~vResult.ok

\* C19. For each of the four valid shape names, a shape_params value that
\* is not a map (a list, number, string or null) is rejected at once with
\* "shape_params must be a JSON object.", whatever the shape requires.
NonMapParamsRejected ==
    (vResult # NotRun /\ vShape \in {"rectangle", "circle", "pill", "c-rectangle"}
         /\ vParams.kind # "dict") =>
        vResult = [ok |-> FALSE, raised |-> FALSE,
                   msg |-> "shape_params must be a JSON object."]

\* C19 witness: the validator has answered a c-rectangle whose shape_params
\* is a list.
NonMapParamsWitness ==
    /\ vResult # NotRun
    /\ vShape = "c-rectangle"
    /\ vParams = PNotDict("list")
    /\ ~vResult.ok /\ ~vResult.raised

\* C20. Deleting a garden bed deletes every planting of that bed: in every
\* reachable state, after any sequence of bed deletes, planting creates and
\* imports, the bed_id of each stored Planting refers to an existing GardenBed.
EveryPlantingHasItsBed ==
    \A p \in plantings : \E b \in beds : b.id = p.bed_id

\* C21. A PlantType is never deleted while a Planting references it: in
\* every reachable state, after any sequence or interleaving of plant-type
\* deletes, planting creates and updates, and imports, the plant_type_id of
\* each stored Planting refers to an existing PlantType.
EveryPlantingHasItsPlantType ==
    \A p \in plantings : \E t \in plantTypes : t.id = p.plant_type_id

RequestDone == last.op = "request"

\* what user b owns in the given tables
OwnedBy(b, bs, ps, ls) ==
    [beds |-> {x \in bs : x.user_id = b},
     plantings |-> {x \in ps : \E y \in bs : y.id = x.bed_id /\ y.user_id = b},
     layouts |-> {x \in ls : x.user_id = b}]

\* C22. A user exclusively owns its beds, layout and plantings: no request of
\* user A or of an unauthenticated caller creates, modifies or deletes a bed,
\* a planting in a bed, or the layout owned by user B, and a request that
\* targets an existing bed not owned by the caller is answered 401 or 403.
OnlyOwnerChangesAndOthersAreRefused ==
    RequestDone =>
        /\ \A b \in Users \ {last.caller} :
               OwnedBy(b, beds, plantings, layouts)
                   = OwnedBy(b, last.beds, last.plantings, last.layouts)
        /\ (\E x \in last.beds : x.id = last.bed_id /\ x.user_id # last.caller)
               => last.status \in {401, 403}

RecommendationsExcludeOnlyLastFamily ==
    (last.op = "recommendations" /\ last.status = 200) =>
        LET recent == last.most_recent_planting
            family == IF recent = NoRow THEN None
                      ELSE (CHOOSE t \in plantTypes : t.id = recent.plant_type_id).rotation_family
        IN  /\ recent \in FirstPlantings(last.bed_id) \cup {NoRow}
            /\ (recent = NoRow) = (FirstPlantings(last.bed_id) = {})
            /\ last.recommendations =
                   {t.id : t \in {x \in plantTypes :
                                     family = None \/ x.rotation_family # family}}

\* C25. In every reachable state no two PlantTypes share a common_name,
\* after any sequence of plant type creates and updates, CSV plant imports,
\* seeding and JSON data imports, a file or document that lists a name twice
\* included: an operation that would add a duplicate resolves to the stored
\* record or fails without adding one.
CommonNamesAreUnique ==
    \A a \in plantTypes : \A b \in plantTypes :
        (a.common_name = b.common_name \/ a.id = b.id) => a = b

\* C25 witness: a CSV file with a repeated or already stored name was
\* imported with status 200 and plant types are stored.
RepeatedNameImportedWitness ==
    /\ last.op = "catalog" /\ last.route = "import_plants"
    /\ last.dup /\ last.status = 200
    /\ Cardinality(plantTypes) >= 2

\* C26. In every reachable state no two User records share an email, under
\* any interleaving of register requests, two concurrent registrations of
\* one email that both pass the existence check included; a register
\* request for an already registered email adds no user.
EmailsAreUnique ==
    /\ \A i \in DOMAIN users : \A j \in DOMAIN users :
           users[i].email = users[j].email => i = j
    /\ (last.op = "register" /\ last.existed) =>
           (Len(users) = last.before /\ last.status \in {409, 500})

\* C26 witness: a registration that had passed the existence check found the
\* email registered by another request when it committed.
LostRegistrationWitness ==
    /\ last.op = "register" /\ last.status = 500 /\ last.existed
    /\ last.email = "c@example.com"
    /\ Len(users) = 3

\* the rule that an input violates first in the documented order: 1 shape
\* membership, 2 params is a map, 3 required keys, 4 per-key constraints,
\* 5 missing_width < width, 6 missing_height < height; 0 when it violates none
FirstViolatedRule(shape, shape_params) ==
    LET m == shape_params.m
        numeric == ShapeParamKeys[shape] \ {"missing_side"}
    IN  IF shape \notin {"rectangle", "circle", "pill", "c-rectangle"} THEN 1
        ELSE IF shape_params.kind # "dict" THEN 2
        ELSE IF ~(ShapeParamKeys[shape] \subseteq DOMAIN m) THEN 3
        ELSE IF \/ \E k \in numeric : ~PositiveNumber(m[k])
                \/ shape = "c-rectangle"
                      /\ ~(m["missing_side"].t = "str" /\ m["missing_side"].s \in MissingSides)
        THEN 4
        ELSE IF shape = "c-rectangle" /\ m["missing_width"].n >= m["width"].n THEN 5
        ELSE IF shape = "c-rectangle" /\ m["missing_height"].n >= m["height"].n THEN 6
        ELSE 0

\* the rule a reason string speaks of
RuleOfReason(msg) ==
    IF msg = "Shape must be one of: rectangle, circle, pill, c-rectangle." THEN 1
    ELSE IF msg = "shape_params must be a JSON object." THEN 2
    ELSE IF msg \in {"Rectangle requires 'width' and 'height' in shape_params.",
                     "Circle requires 'radius' in shape_params."}
                    \cup {PillRequiresMsg[k] : k \in DOMAIN PillRequiresMsg}
                    \cup {CRectRequiresMsg[k] : k \in DOMAIN CRectRequiresMsg} THEN 3
    ELSE IF msg \in {"Circle 'radius' must be a positive number.",
                     "C-rectangle 'missing_side' must be one of: top, bottom, left, right."}
                    \cup {RectangleMsg[k] : k \in DOMAIN RectangleMsg}
                    \cup {PillPositiveMsg[k] : k \in DOMAIN PillPositiveMsg}
                    \cup {CRectPositiveMsg[k] : k \in DOMAIN CRectPositiveMsg} THEN 4
    ELSE IF msg = "C-rectangle 'missing_width' must be less than 'width'." THEN 5
    ELSE IF msg = "C-rectangle 'missing_height' must be less than 'height'." THEN 6
    ELSE 0

\* C27. Validation short-circuits: for an input that violates several rules
\* the validator returns invalid with the reason of the first violated rule in
\* the documented order (shape membership, params is a map, the shape's
\* required keys, per-key constraints, then for c-rectangle missing_width <
\* width before missing_height < height); a valid result carries no reason
\* and an invalid result always carries a non-empty reason string.
ReasonIsOfFirstViolatedRule ==
    vResult # NotRun =>
        /\ ~vResult.raised
        /\ vResult.ok = (FirstViolatedRule(vShape, vParams) = 0)
        /\ vResult.ok => vResult.msg = None
        /\ ~vResult.ok => /\ vResult.msg \notin {None, ""}
                          /\ RuleOfReason(vResult.msg) = FirstViolatedRule(vShape, vParams)

\* the planting row p is attached to the bed made from the last bed entry
\* carrying the old id e.bed_id and to the plant type named by the last
\* plant type entry carrying the old id e.plant_type_id
AttachedAsEntry(doc, e, p) ==
    LET bedIdx == Max({j \in Idx(doc.garden_beds) :
                          "id" \in DOMAIN doc.garden_beds[j]
                              /\ doc.garden_beds[j]["id"] = e["bed_id"]})
        ptIdx == Max({k \in Idx(doc.plant_types) :
                         HasName(doc.plant_types[k]) /\ "id" \in DOMAIN doc.plant_types[k]
                             /\ doc.plant_types[k]["id"] = e["plant_type_id"]})
    IN  /\ p.bed_id = IdBase(OtherBedsBefore) + bedIdx
        /\ \E b \in BedsOf(last.user) : b.id = p.bed_id
        /\ \E t \in plantTypes :
               t.id = p.plant_type_id /\ t.common_name = doc.plant_types[ptIdx]["common_name"]

\* C28. Import keeps one id map per entity kind: a planting's bed_id is
\* resolved through the bed id map only and its plant_type_id through the
\* plant type id map only, so when a bed entry and a plant type entry carry
\* the same old id each planting is still attached to the bed created from
\* the bed entry and to the plant type resolved from the plant type entry.
PlantingsResolvedPerKind ==
    ImportSucceeded =>
        LET doc == last.doc
            made == {i \in Idx(doc.plantings) : Resolvable(doc, doc.plantings[i])}
        IN  /\ \A i \in made : \E p \in CreatedPlantings :
                   AttachedAsEntry(doc, doc.plantings[i], p)
            /\ \A p \in CreatedPlantings : \E i \in made :
                   AttachedAsEntry(doc, doc.plantings[i], p)

\* C28 witness: a bed entry and a plant type entry both carried the old id 1,
\* the two maps gave it different new ids, and the planting entry (1, 1) was
\* stored with the bed's new id and the plant type's new id.
SameOldIdWitness ==
    /\ ImportSucceeded
    /\ 1 \in DOMAIN last.garden_bed_id_map /\ 1 \in DOMAIN last.plant_type_id_map
    /\ last.garden_bed_id_map[1] # last.plant_type_id_map[1]
    /\ \E i \in Idx(last.doc.plantings) :
           /\ Resolvable(last.doc, last.doc.plantings[i])
           /\ last.doc.plantings[i]["bed_id"] = 1
           /\ last.doc.plantings[i]["plant_type_id"] = 1
    /\ \E p \in CreatedPlantings :
           p.bed_id = last.garden_bed_id_map[1] /\ p.plant_type_id = last.plant_type_id_map[1]

\* the calendar date of a date field of a document entry, NoDate when the
\* field is absent, null or empty
EntryDate(e, k) ==
    LET text == Get(e, k, None)
    IN  IF text \in DOMAIN IsoDates THEN IsoDates[text] ELSE NoDate

\* the planting row p carries the dates of the entry e, the harvest date
\* being the field expected_harvest_date that the export writes
CarriesDatesOf(e, p) ==
    /\ p.date_planted = EntryDate(e, "date_planted")
    /\ p.expected_harvest_date = EntryDate(e, "expected_harvest_date")

\* C29. For every planting entry that a successful import does not skip,
\* the stored planting's date_planted equals the entry's date_planted and
\* its expected harvest date equals the entry's harvest-date field (null
\* when absent); a planting exported with a non-null expected_harvest_date
\* has the same expected harvest date after the exported document is
\* imported.
ImportKeepsPlantingDates ==
    /\ ImportSucceeded =>
           \A i \in Idx(last.doc.plantings) :
               Resolvable(last.doc, last.doc.plantings[i]) =>
                   \E p \in CreatedPlantings : CarriesDatesOf(last.doc.plantings[i], p)
    /\ (last.op = "export_import" /\ last.status = 200) =>
           \A i \in Idx(last.doc.plantings) :
               \E p \in PlantingsOf(last.user) : CarriesDatesOf(last.doc.plantings[i], p)

\* C30. An import by a user, successful or failed, leaves every GardenBed,
\* Planting and GardenLayout owned by any other user unchanged (same rows,
\* same ids, same field values) and leaves the other users' accounts as they
\* were; of the state shared with other users only the plant type catalog
\* may change.
ImportLeavesOtherUsersData ==
    ImportDone =>
        \A b \in Users \ {last.user} :
            LET bedsBefore == {x \in last.pre.beds : x.user_id = b}
            IN  /\ BedsOf(b) = bedsBefore
                /\ PlantingsOf(b) =
                       {p \in last.pre.plantings : p.bed_id \in {x.id : x \in bedsBefore}}
                /\ LayoutsOf(b) = {l \in last.pre.layouts : l.user_id = b}
                /\ users[b] = InitUsers[b]

\* C30 witness: a successful import replaced the importing user's beds,
\* plantings and layout and changed the catalog, while another user owns a
\* bed, a planting and a layout.
OtherUserKeptWitness ==
    /\ ImportSucceeded
    /\ OwnBedsBefore # {} /\ OwnPlantingsBefore # {} /\ OwnLayoutsBefore # {}
    /\ BedsOf(last.user) # OwnBedsBefore
    /\ plantTypes # last.pre.plantTypes
    /\ \E b \in Users \ {last.user} :
           BedsOf(b) # {} /\ PlantingsOf(b) # {} /\ LayoutsOf(b) # {}

====
